---- MODULE Spec2Model ----
(***************************************************************************)
(* Model of the l2-protocol crate (kawogi/unitree-lidar-l2): the frame     *)
(* envelope parser, the CRC check, the packet-type dispatcher and the      *)
(* payload decoders, driven by the caller's decode loop of                 *)
(* examples/parse-pcapng.rs.                                               *)
(*                                                                         *)
(* A byte is a natural in 0..255, a byte slice a sequence of bytes.  A u32 *)
(* is the pair <<lo, hi>> of its 16-bit halves (value lo + 65536 * hi), so *)
(* that all 32 bits are kept although TLC's integers are 32-bit signed.    *)
(* A Result is a record with ok = TRUE (and the value) or ok = FALSE and   *)
(* err = [msg, args], msg being the text of the bail!() of the source.     *)
(***************************************************************************)
EXTENDS Integers, Sequences, FiniteSets, TLC

VARIABLES
    sent,     \* the first frame of the buffer as its sender built it
    input,    \* the buffer handed to the decode loop (udp.payload())
    data,     \* parse_incoming: the not yet consumed part of the buffer
    prev,     \* the argument of the last Packet::parse call
    res,      \* the result of the last Packet::parse call
    packets,  \* the packets decoded so far, in order
    pc,       \* "loop", "done", "panic" in the decode loop; "decode", "decoded" for a decoder
    arg,      \* a decoder run on its own: <<packet type, payload bytes>>
    out,      \* a decoder run on its own: its result
    callers   \* several callers, each with a buffer and a decode loop of its own

vars == <<sent, input, data, prev, res, packets, pc, arg, out, callers>>

-----------------------------------------------------------------------------
(* Bytes, slices and little-endian integers                                *)

Byte == 0..255

\* slice[a..b] (1-based, inclusive); empty when b < a
Slice(s, a, b) == [i \in 1..(b - a + 1) |-> s[a + i - 1]]

Take(s, n) == Slice(s, 1, n)

Drop(s, n) == Slice(s, n + 1, Len(s))

\* n copies of byte b
Rep(b, n) == [i \in 1..n |-> b]

RECURSIVE BitOp(_, _, _, _)
\* bitwise operation on two naturals below 2^w; op is "xor", "and" or "or"
BitOp(op, a, b, w) ==
    IF w = 0 THEN 0
    ELSE LET x == a % 2
             y == b % 2
             z == CASE op = "xor" -> (x + y) % 2
                    [] op = "and" -> x * y
                    [] OTHER      -> IF x + y > 0 THEN 1 ELSE 0
         IN  z + 2 * BitOp(op, a \div 2, b \div 2, w - 1)

\* the operands are values before the bits are taken
BitOpOf(op, a, b, w) == CHOOSE z \in {BitOp(op, x, y, w) : x \in {a}, y \in {b}} : TRUE

\* the xor of two naturals below 16
XorNibble == [a \in 0..15 |-> [b \in 0..15 |-> BitOp("xor", a, b, 4)]]

Xor8(a, b) ==
    CHOOSE z \in {XorNibble[x % 16][y % 16] + 16 * XorNibble[x \div 16][y \div 16] :
                     x \in {a}, y \in {b}} : TRUE

Xor16(a, b) ==
    CHOOSE z \in {Xor8(x % 256, y % 256) + 256 * Xor8(x \div 256, y \div 256) :
                     x \in {a}, y \in {b}} : TRUE

And16(a, b) == BitOpOf("and", a, b, 16)

\* the u32 with the small natural value n (n < 2^31)
U32(n) == <<n % 65536, n \div 65536>>

XorU32(a, b) == CHOOSE z \in {<<Xor16(x[1], y[1]), Xor16(x[2], y[2])>> : x \in {a}, y \in {b}} : TRUE

AndU32(a, b) == CHOOSE z \in {<<And16(x[1], y[1]), And16(x[2], y[2])>> : x \in {a}, y \in {b}} : TRUE

\* a >> 1
Shr1U32(a) == <<(a[1] \div 2) + 32768 * (a[2] % 2), a[2] \div 2>>

\* a >> 8
Shr8U32(a) == <<(a[1] \div 256) + 256 * (a[2] % 256), a[2] \div 256>>

\* the four bytes of a u32, least significant first
U32LeBytes(a) == <<a[1] % 256, a[1] \div 256, a[2] % 256, a[2] \div 256>>

\* a mutation of GetU32Le: the bytes read most significant first
GetU32Be(bytes) == <<bytes[4] + 256 * bytes[3], bytes[2] + 256 * bytes[1]>>

\* Buf::get_u32_le on the first four bytes of a slice
GetU32Le(bytes) == <<bytes[1] + 256 * bytes[2], bytes[3] + 256 * bytes[4]>>

\* Buf::get_u16_le
GetU16Le(bytes) == bytes[1] + 256 * bytes[2]

\* Buf::get_f32_le: the float is kept as its bit pattern
GetF32Le(bytes) == [bits |-> GetU32Le(bytes)]

\* the largest integer TLC holds; no slice of the model is that long
MaxInt == 32767 * 65536 + 65535

\* u32::to_usize (lib.rs): the numeric value.  A value of 2^31 or more is held
\* as MaxInt: the code only subtracts 24 from it and compares it with the
\* length of a slice, and both come out the same.
ToUsize(a) == IF a[2] >= 32768 THEN MaxInt ELSE a[1] + 65536 * a[2]

-----------------------------------------------------------------------------
(* CRC-32/ISO-HDLC, as crc_fast::checksum(CrcAlgorithm::Crc32IsoHdlc, ..)  *)

CrcPoly == <<33568, 60856>>   \* 0xEDB88320, the reflected polynomial

CrcAllOnes == <<65535, 65535>>  \* 0xFFFFFFFF: initial value and final xor

RECURSIVE CrcBits(_, _)
CrcBits(c, k) ==
    IF k = 0 THEN c
    ELSE CHOOSE z \in {CrcBits(IF x[1] % 2 = 1 THEN XorU32(CrcPoly, Shr1U32(x)) ELSE Shr1U32(x),
                               k - 1) : x \in {c}} : TRUE

CrcTable == [i \in Byte |-> CrcBits(<<i, 0>>, 8)]

CrcStep(c, b) ==
    CHOOSE z \in {XorU32(CrcTable[Xor8(x[1] % 256, b)], Shr8U32(x)) : x \in {c}} : TRUE

RECURSIVE CrcRange(_, _, _, _)
\* the CRC register c after bytes[lo..hi].  The range is halved and the
\* register after the first half is a value before the second half is
\* entered, which keeps TLC's evaluation stack logarithmic in the length.
CrcRange(c, bytes, lo, hi) ==
    IF hi < lo THEN c
    ELSE IF lo = hi THEN CrcStep(c, bytes[lo])
    ELSE LET mid == (lo + hi) \div 2
         IN  CHOOSE right \in {CrcRange(left, bytes, mid + 1, hi) :
                                   left \in {CrcRange(c, bytes, lo, mid)}} : TRUE

\* a mutation of Checksum: the final xor is left out
ChecksumNoXorOut(bytes) == CrcRange(CrcAllOnes, bytes, 1, Len(bytes))

Checksum(bytes) == XorU32(CrcRange(CrcAllOnes, bytes, 1, Len(bytes)), CrcAllOnes)

-----------------------------------------------------------------------------
(* Results, and the shapes of code every reader shares                     *)

Ok(v, remainder) == [ok |-> TRUE, val |-> v, remainder |-> remainder]

Err(msg, args) == [ok |-> FALSE, err |-> [msg |-> msg, args |-> args]]

\* a panic!()/unreachable!() of the source or of a library it calls
Panic(msg) == [ok |-> FALSE, panic |-> TRUE, err |-> [msg |-> msg, args |-> <<>>]]

\* the `?` operator: an error is returned at once, a value is handed on
Try(r, K(_)) == CHOOSE result \in {IF v.ok THEN K(v) ELSE v : v \in {r}} : TRUE

\* let Some((bytes, remainder)) = bytes.split_at_checked(LEN) else { bail!(..) }
Carve(bytes, LEN, K(_, _)) ==
    IF LEN > Len(bytes)
    THEN Err("expected a minimum of {} bytes but got {}", <<LEN, Len(bytes)>>)
    ELSE K(Take(bytes, LEN), Drop(bytes, LEN))

RECURSIVE Sum(_)
Sum(ws) == IF Len(ws) = 0 THEN 0 ELSE Head(ws) + Sum(Tail(ws))

\* the widths the reader of a record consumes, field by field
Widths(fields) == [k \in 1..Len(fields) |-> fields[k][1]]

\* the bytes of field k (1-based) of a record, read in order by a cursor that
\* starts at the front of bytes; fields are <<size, align>> pairs
Field(bytes, fields, k) ==
    Slice(bytes, Sum(Take(Widths(fields), k - 1)) + 1, Sum(Take(Widths(fields), k)))

RECURSIVE SizeOfFrom(_, _, _)
SizeOfFrom(fields, k, off) ==
    IF k > Len(fields) THEN off
    ELSE SizeOfFrom(fields, k + 1,
                    off + ((fields[k][2] - (off % fields[k][2])) % fields[k][2]) + fields[k][1])

RECURSIVE MaxAlign(_)
MaxAlign(fields) ==
    IF Len(fields) = 0 THEN 1
    ELSE IF Head(fields)[2] > MaxAlign(Tail(fields)) THEN Head(fields)[2]
    ELSE MaxAlign(Tail(fields))

\* n rounded up to a multiple of al
RoundUp(n, al) == n + ((al - (n % al)) % al)

\* size_of::<T>() of a #[repr(C)] struct whose fields are <<size, align>> pairs
SizeOf(fields) == RoundUp(SizeOfFrom(fields, 1, 0), MaxAlign(fields))

\* what follows a record's reads: the `if !bytes.is_empty() { unreachable!() }`
\* of the fixed-size readers, and the panic of Buf::get_* on a short slice
Consumed(bytes, fields, v) ==
    IF Sum(Widths(fields)) > Len(bytes) THEN Panic("advance out of bounds")
    ELSE IF Sum(Widths(fields)) < Len(bytes)
         THEN Panic("bytes should've been completely consumed")
    ELSE v

-----------------------------------------------------------------------------
(* frame.rs: FrameHeader and FrameTail                                     *)

FRAME_HEADER_ARRAY == <<85, 170, 5, 10>>   \* 0x55 0xAA 0x05 0x0A

FRAME_TAIL_ARRAY == <<0, 255>>             \* 0x00 0xFF

\* struct FrameHeader { header: [u8; 4], packet_type: u32, packet_size: u32 }
FrameHeaderFields == << <<4, 1>>, <<4, 4>>, <<4, 4>> >>

FrameHeaderLEN == SizeOf(FrameHeaderFields)

\* struct FrameTail { crc32: u32, msg_type_check: u32, reserve: [u8; 2], tail: [u8; 2] }
FrameTailFields == << <<4, 4>>, <<4, 4>>, <<2, 1>>, <<2, 1>> >>

FrameTailLEN == SizeOf(FrameTailFields)

\* the FrameHeader read from its twelve bytes
ReadFrameHeader(head, remainder) ==
    Consumed(head, FrameHeaderFields,
        Ok([header      |-> FRAME_HEADER_ARRAY,
            packet_type |-> GetU32Le(Field(head, FrameHeaderFields, 2)),
            packet_size |-> GetU32Le(Field(head, FrameHeaderFields, 3))], remainder))

\* a mutation of FrameHeaderParse: the magic bytes are not compared
FrameHeaderParseNoMagic(bytes) ==
    Carve(bytes, FrameHeaderLEN, LAMBDA head, remainder : ReadFrameHeader(head, remainder))

\* a mutation of FrameHeaderParse: only the first two magic bytes are compared
FrameHeaderParseMagic2(bytes) ==
    Carve(bytes, FrameHeaderLEN, LAMBDA head, remainder :
        IF Take(head, 2) # Take(FRAME_HEADER_ARRAY, 2) THEN Err("wrong magic bytes", <<>>)
        ELSE ReadFrameHeader(head, remainder))

\* the positions of a slice at which the start magic is found
MagicStarts(bytes) ==
    {i \in 1..(Len(bytes) - 3) : Slice(bytes, i, i + 3) = FRAME_HEADER_ARRAY}

\* a mutation of FrameHeaderParse: the bytes before the first start magic are skipped
FrameHeaderParseResync(bytes) ==
    Carve(IF MagicStarts(bytes) = {} THEN bytes
          ELSE Drop(bytes, (CHOOSE i \in MagicStarts(bytes) :
                               \A j \in MagicStarts(bytes) : i <= j) - 1),
          FrameHeaderLEN, LAMBDA head, remainder :
        IF Take(head, Len(FRAME_HEADER_ARRAY)) # FRAME_HEADER_ARRAY
        THEN Err("wrong magic bytes", <<>>)
        ELSE ReadFrameHeader(head, remainder))

\* FrameHeader::parse
FrameHeaderParse(bytes) ==
    Carve(bytes, FrameHeaderLEN, LAMBDA head, remainder :
        IF Take(head, Len(FRAME_HEADER_ARRAY)) # FRAME_HEADER_ARRAY
        THEN Err("wrong magic bytes", <<>>)
        ELSE ReadFrameHeader(head, remainder))

\* the FrameTail read from its twelve bytes
ReadFrameTail(head, remainder) ==
    Ok([crc32          |-> GetU32Le(Field(head, FrameTailFields, 1)),
        msg_type_check |-> GetU32Le(Field(head, FrameTailFields, 2)),
        reserve        |-> Field(head, FrameTailFields, 3),
        tail           |-> FRAME_TAIL_ARRAY], remainder)

\* a mutation of FrameTailParse: the tail magic is not compared
FrameTailParseNoMagic(bytes) ==
    Carve(bytes, FrameTailLEN, LAMBDA head, remainder : ReadFrameTail(head, remainder))

\* a mutation of FrameTailParse: reserved bytes other than zero are taken
\* for a wrong tail
FrameTailParseReservedZero(bytes) ==
    Carve(bytes, FrameTailLEN, LAMBDA head, remainder :
        IF Drop(head, Sum(Take(Widths(FrameTailFields), 2))) # <<0, 0>> \o FRAME_TAIL_ARRAY
        THEN Err("wrong tail", <<>>)
        ELSE ReadFrameTail(head, remainder))

\* FrameTail::parse: after crc32, msg_type_check and reserve are read, the
\* rest of the slice is compared with the tail magic
FrameTailParse(bytes) ==
    Carve(bytes, FrameTailLEN, LAMBDA head, remainder :
        IF Drop(head, Sum(Take(Widths(FrameTailFields), 3))) # FRAME_TAIL_ARRAY
        THEN Err("wrong tail", <<>>)
        ELSE ReadFrameTail(head, remainder))

-----------------------------------------------------------------------------
(* frame.rs: PacketType                                                    *)

LIDAR_USER_CMD == 100
LIDAR_ACK_DATA == 101
LIDAR_POINT_DATA == 102
LIDAR_2D_POINT_DATA == 103
LIDAR_IMU_DATA == 104
LIDAR_VERSION == 105
LIDAR_TIME_STAMP == 106
LIDAR_WORK_MODE_CONFIG == 107
LIDAR_IP_ADDRESS_CONFIG == 108
LIDAR_MAC_ADDRESS_CONFIG == 109
LIDAR_COMMAND == 2000
LIDAR_PARAM_DATA == 2001
LIDAR_WORK_MODE == 2002

\* the match of PacketType::try_from, arm by arm
PacketTypeTable ==
    << <<LIDAR_USER_CMD, "LidarUserCmd">>,
       <<LIDAR_ACK_DATA, "LidarAckData">>,
       <<LIDAR_POINT_DATA, "LidarPointData">>,
       <<LIDAR_2D_POINT_DATA, "Lidar2DPointData">>,
       <<LIDAR_IMU_DATA, "LidarImuData">>,
       <<LIDAR_VERSION, "LidarVersion">>,
       <<LIDAR_TIME_STAMP, "LidarTimeStamp">>,
       <<LIDAR_WORK_MODE_CONFIG, "LidarWorkModeConfig">>,
       <<LIDAR_IP_ADDRESS_CONFIG, "LidarIpAddressConfig">>,
       <<LIDAR_MAC_ADDRESS_CONFIG, "LidarMacAddressConfig">>,
       <<LIDAR_COMMAND, "LidarCommand">>,
       <<LIDAR_PARAM_DATA, "LidarParamData">>,
       <<LIDAR_WORK_MODE, "LidarWorkMode">> >>

\* the arms of a match table <<code, variant>> that match the u32 value
Arms(table, value) == {k \in 1..Len(table) : U32(table[k][1]) = value}

\* a match on a u32 against the constants of a table: the variant of the
\* first arm that matches, or the error of the catch-all arm
Match(table, value, msg) ==
    IF Arms(table, value) = {} THEN Err(msg, <<value>>)
    ELSE Ok(table[CHOOSE k \in Arms(table, value) :
                      \A j \in Arms(table, value) : k <= j][2], <<>>)

\* a mutation of PacketTypeTryFrom: an unknown code is taken for a time stamp
PacketTypeTryFromCatchAll(value) ==
    IF Arms(PacketTypeTable, value) = {} THEN Ok("LidarTimeStamp", <<>>)
    ELSE Match(PacketTypeTable, value, "unknown packet type: {unknown}")

\* a mutation of PacketTypeTryFrom: the arms of 103 and 106 are exchanged
PacketTypeTryFromSwapped(value) ==
    IF value = U32(LIDAR_2D_POINT_DATA) THEN Ok("LidarTimeStamp", <<>>)
    ELSE IF value = U32(LIDAR_TIME_STAMP) THEN Ok("Lidar2DPointData", <<>>)
    ELSE Match(PacketTypeTable, value, "unknown packet type: {unknown}")

\* impl TryFrom<u32> for PacketType
PacketTypeTryFrom(value) == Match(PacketTypeTable, value, "unknown packet type: {unknown}")

-----------------------------------------------------------------------------
(* user_ctrl_cmd.rs                                                        *)

\* a mutation of StandbyTypeTryFrom: every value but 0 is Standby
StandbyTypeTryFromBool(value) ==
    IF value = U32(0) THEN Ok("Start", <<>>) ELSE Ok("Standby", <<>>)

\* impl TryFrom<u32> for StandbyType
StandbyTypeTryFrom(value) ==
    Match(<< <<0, "Start">>, <<1, "Standby">> >>, value, "unknown standby mode: {unknown}")

UserCmdTable ==
    << <<1, "ResetType">>, <<2, "StandbyType">>, <<3, "VersionGet">>,
       <<4, "LatencyType">>, <<5, "ConfigReset">>, <<6, "ConfigGet">>,
       <<7, "ConfigAutoStandby">> >>

\* impl TryFrom<(u32, u32)> for UserCmd
UserCmdTryFrom(typ, value) ==
    Try(Match(UserCmdTable, typ, "unknown command type: {unknown}"), LAMBDA arm :
        IF arm.val = "StandbyType"
        THEN Try(StandbyTypeTryFrom(value), LAMBDA sb :
                 Ok([variant |-> "StandbyType", value |-> sb.val], <<>>))
        ELSE Ok([variant |-> arm.val, value |-> value], <<>>))

\* struct LidarUserCtrlCmd { cmd_type: u32, cmd_value: u32 }
LidarUserCtrlCmdFields == << <<4, 4>>, <<4, 4>> >>

LidarUserCtrlCmdLEN == SizeOf(LidarUserCtrlCmdFields)

\* LidarUserCtrlCmd::parse
LidarUserCtrlCmdParse(bytes) ==
    Carve(bytes, LidarUserCtrlCmdLEN, LAMBDA head, remainder :
        Consumed(head, LidarUserCtrlCmdFields,
            Ok([cmd_type  |-> GetU32Le(Field(head, LidarUserCtrlCmdFields, 1)),
                cmd_value |-> GetU32Le(Field(head, LidarUserCtrlCmdFields, 2))], remainder)))

-----------------------------------------------------------------------------
(* command.rs                                                              *)

CommandTable ==
    << <<1, "ResetType">>, <<2, "ParamSave">>, <<3, "ParamGet">>,
       <<4, "VersionGet">>, <<5, "StandbyType">>, <<6, "LatencyType">>,
       <<7, "ConfigReset">> >>

\* a mutation of CommandTryFrom: the pair is decoded by the table of UserCmd
CommandTryFromUserTable(typ, value) == UserCmdTryFrom(typ, value)

\* impl TryFrom<(u32, u32)> for Command
CommandTryFrom(typ, value) ==
    Try(Match(CommandTable, typ, "unknown command type: {unknown}"), LAMBDA arm :
        Ok([variant |-> arm.val, value |-> value], <<>>))

\* struct LidarCommand { cmd_type: u32, cmd_value: u32 }
LidarCommandFields == << <<4, 4>>, <<4, 4>> >>

LidarCommandLEN == SizeOf(LidarCommandFields)

\* LidarCommand::parse
LidarCommandParse(bytes) ==
    Carve(bytes, LidarCommandLEN, LAMBDA head, remainder :
        Consumed(head, LidarCommandFields,
            Ok([cmd_type  |-> GetU32Le(Field(head, LidarCommandFields, 1)),
                cmd_value |-> GetU32Le(Field(head, LidarCommandFields, 2))], remainder)))

-----------------------------------------------------------------------------
(* ack.rs                                                                  *)

AckStatusTable ==
    << <<1, "Success">>, <<2, "CrcError">>, <<3, "HeaderError">>,
       <<4, "BlockError">>, <<5, "WaitError">> >>

\* a mutation of AckStatusTryFrom: the status values are counted from 0
AckStatusTryFromZeroBased(value) ==
    Match(<< <<0, "Success">>, <<1, "CrcError">>, <<2, "HeaderError">>,
             <<3, "BlockError">>, <<4, "WaitError">> >>,
          value, "unknown ack status: {unknown}")

\* impl TryFrom<u32> for AckStatus
AckStatusTryFrom(value) == Match(AckStatusTable, value, "unknown ack status: {unknown}")

\* a mutation of AckOf: the tables of UserCmd and Command are exchanged
AckOfSwapped(value, status) ==
    IF value.packet_type = U32(LIDAR_USER_CMD)
    THEN Try(CommandTryFrom(value.cmd_type, value.cmd_value), LAMBDA cmd :
             Ok([variant |-> "UserCmd", cmd |-> cmd.val, status |-> status], <<>>))
    ELSE IF value.packet_type = U32(LIDAR_COMMAND)
    THEN Try(UserCmdTryFrom(value.cmd_type, value.cmd_value), LAMBDA cmd :
             Ok([variant |-> "Command", cmd |-> cmd.val, status |-> status], <<>>))
    ELSE IF value.packet_type = U32(LIDAR_WORK_MODE)
    THEN Ok([variant |-> "WorkMode", cmd_type |-> value.cmd_type,
             cmd_value |-> value.cmd_value, status |-> status], <<>>)
    ELSE Err("ack for unknown packet type: {unknown}", <<value.packet_type>>)

\* the match of Ack::try_from on the echoed packet type
AckOf(value, status) ==
    IF value.packet_type = U32(LIDAR_USER_CMD)
    THEN Try(UserCmdTryFrom(value.cmd_type, value.cmd_value), LAMBDA cmd :
             Ok([variant |-> "UserCmd", cmd |-> cmd.val, status |-> status], <<>>))
    ELSE IF value.packet_type = U32(LIDAR_COMMAND)
    THEN Try(CommandTryFrom(value.cmd_type, value.cmd_value), LAMBDA cmd :
             Ok([variant |-> "Command", cmd |-> cmd.val, status |-> status], <<>>))
    ELSE IF value.packet_type = U32(LIDAR_WORK_MODE)
    THEN Ok([variant |-> "WorkMode", cmd_type |-> value.cmd_type,
             cmd_value |-> value.cmd_value, status |-> status], <<>>)
    ELSE Err("ack for unknown packet type: {unknown}", <<value.packet_type>>)

\* impl TryFrom<LidarAckData> for Ack: the status is decoded first
AckTryFrom(value) ==
    Try(AckStatusTryFrom(value.status), LAMBDA status : AckOf(value, status.val))

\* a mutation of LidarAckDataFields: the status is declared as a u16, which
\* the compiler pads to the alignment of the struct
LidarAckDataFieldsU16Status == << <<4, 4>>, <<4, 4>>, <<4, 4>>, <<2, 2>> >>

\* struct LidarAckData { packet_type: u32, cmd_type: u32, cmd_value: u32, status: u32 }
LidarAckDataFields == << <<4, 4>>, <<4, 4>>, <<4, 4>>, <<4, 4>> >>

LidarAckDataLEN == SizeOf(LidarAckDataFields)

\* LidarAckData::parse
LidarAckDataParse(bytes) ==
    Carve(bytes, LidarAckDataLEN, LAMBDA head, remainder :
        Consumed(head, LidarAckDataFields,
            Ok([packet_type |-> GetU32Le(Field(head, LidarAckDataFields, 1)),
                cmd_type    |-> GetU32Le(Field(head, LidarAckDataFields, 2)),
                cmd_value   |-> GetU32Le(Field(head, LidarAckDataFields, 3)),
                status      |-> GetU32Le(Field(head, LidarAckDataFields, 4))], remainder)))

-----------------------------------------------------------------------------
(* work_mode.rs                                                            *)

ReservedMask == <<65504, 65535>>   \* 0b1111_1111_1111_1111_1111_1111_1110_0000

\* flags & mask != 0
Flag(flags, mask) == AndU32(flags, mask) # U32(0)

\* the five flags, each from its own bit
WorkModeFlags(flags) ==
    Ok([wide_angle  |-> Flag(flags, U32(1)),
        measure_2d  |-> Flag(flags, U32(2)),
        disable_imu |-> Flag(flags, U32(4)),
        serial_mode |-> Flag(flags, U32(8)),
        wait_start  |-> Flag(flags, U32(16))], <<>>)

\* a mutation of WorkModeTryFrom: wait_start is read from bit 3
WorkModeTryFromBit3(value) ==
    IF Flag(value.mode, ReservedMask) THEN Err("unknown mode flags: {value}", <<value.mode>>)
    ELSE Ok([wide_angle  |-> Flag(value.mode, U32(1)),
             measure_2d  |-> Flag(value.mode, U32(2)),
             disable_imu |-> Flag(value.mode, U32(4)),
             serial_mode |-> Flag(value.mode, U32(8)),
             wait_start  |-> Flag(value.mode, U32(8))], <<>>)

\* a mutation of WorkModeTryFrom: only the reserved bits of the low byte are rejected
WorkModeTryFromLowByte(value) ==
    IF Flag(value.mode, U32(224)) THEN Err("unknown mode flags: {value}", <<value.mode>>)
    ELSE WorkModeFlags(value.mode)

\* impl TryFrom<LidarWorkModeConfig> for WorkMode
WorkModeTryFrom(value) ==
    IF Flag(value.mode, ReservedMask) THEN Err("unknown mode flags: {value}", <<value.mode>>)
    ELSE WorkModeFlags(value.mode)

\* struct LidarWorkModeConfig { mode: u32 }
LidarWorkModeConfigFields == << <<4, 4>> >>

LidarWorkModeConfigLEN == SizeOf(LidarWorkModeConfigFields)

\* LidarWorkModeConfig::parse
LidarWorkModeConfigParse(bytes) ==
    Carve(bytes, LidarWorkModeConfigLEN, LAMBDA head, remainder :
        Consumed(head, LidarWorkModeConfigFields,
            Ok([mode |-> GetU32Le(Field(head, LidarWorkModeConfigFields, 1))], remainder)))

-----------------------------------------------------------------------------
(* version.rs                                                              *)

\* bytes[i] exists and lies in lo..hi
InRange(bytes, i, lo, hi) == i <= Len(bytes) /\ bytes[i] \in lo..hi

RECURSIVE Utf8From(_, _)
\* core::str::from_utf8 accepts bytes[i..]: well-formed UTF-8 (no overlong
\* forms, no surrogates, nothing above U+10FFFF)
Utf8From(bytes, i) ==
    IF i > Len(bytes) THEN TRUE
    ELSE IF bytes[i] <= 127 THEN Utf8From(bytes, i + 1)
    ELSE IF bytes[i] \in 194..223
         THEN InRange(bytes, i + 1, 128, 191) /\ Utf8From(bytes, i + 2)
    ELSE IF bytes[i] \in 224..239
         THEN /\ InRange(bytes, i + 1,
                         IF bytes[i] = 224 THEN 160 ELSE 128,
                         IF bytes[i] = 237 THEN 159 ELSE 191)
              /\ InRange(bytes, i + 2, 128, 191)
              /\ Utf8From(bytes, i + 3)
    ELSE IF bytes[i] \in 240..244
         THEN /\ InRange(bytes, i + 1,
                         IF bytes[i] = 240 THEN 144 ELSE 128,
                         IF bytes[i] = 244 THEN 143 ELSE 191)
              /\ InRange(bytes, i + 2, 128, 191)
              /\ InRange(bytes, i + 3, 128, 191)
              /\ Utf8From(bytes, i + 4)
    ELSE FALSE

\* String::from_utf8(bytes).context(..): the string keeps the bytes
StringFromUtf8(bytes) ==
    IF Utf8From(bytes, 1) THEN Ok(bytes, <<>>)
    ELSE Err("device name contained invalid utf-8", <<>>)

\* the positions of the NUL bytes of a slice
Nuls(name) == {i \in 1..Len(name) : name[i] = 0}

\* a mutation of TrimNul: the slice is cut at its first NUL byte (a C string)
TrimAtFirstNul(name) ==
    IF Nuls(name) = {} THEN name
    ELSE Take(name, (CHOOSE i \in Nuls(name) : \A j \in Nuls(name) : i <= j) - 1)

\* a mutation of TrimNul: one trailing NUL byte at most is removed
TrimOneNul(name) ==
    IF Len(name) > 0 /\ name[Len(name)] = 0 THEN Take(name, Len(name) - 1) ELSE name

RECURSIVE TrimNul(_)
\* while let [rest @ .., last] = name { if *last == 0 { name = rest } else { break } }
TrimNul(name) ==
    IF Len(name) = 0 THEN name
    ELSE IF name[Len(name)] = 0 THEN TrimNul(Take(name, Len(name) - 1))
    ELSE name

\* char::from(u8): the code point with the byte's value
CharFrom(b) == b

RECURSIVE Decimal(_)
\* the decimal digits of a natural, as Display writes an integer
Decimal(n) == IF n < 10 THEN <<48 + n>> ELSE Decimal(n \div 10) \o <<48 + (n % 10)>>

\* a mutation of FormatDate: the date bytes are written as integers
FormatDateRaw(date) ==
    <<50, 48>> \o Decimal(date[1]) \o Decimal(date[2]) \o <<45>>
    \o Decimal(date[3]) \o Decimal(date[4]) \o <<45>>
    \o Decimal(date[5]) \o Decimal(date[6])

\* format!("20{}{}-{}{}-{}{}", ..): the string as its sequence of code points
FormatDate(date) ==
    <<50, 48, CharFrom(date[1]), CharFrom(date[2]), 45,
      CharFrom(date[3]), CharFrom(date[4]), 45,
      CharFrom(date[5]), CharFrom(date[6])>>

\* impl TryFrom<LidarVersionData> for Version
VersionTryFrom(value) ==
    Try(StringFromUtf8(TrimNul(value.name)), LAMBDA name :
        Ok([hardware |-> value.hw_version,
            software |-> value.sw_version,
            name     |-> name.val,
            date     |-> FormatDate(value.date)], <<>>))

\* struct LidarVersionData { hw_version: [u8; 4], sw_version: [u8; 4],
\*                           name: [u8; 24], date: [u8; 8], reserve: [u8; 40] }
LidarVersionDataFields == << <<4, 1>>, <<4, 1>>, <<24, 1>>, <<8, 1>>, <<40, 1>> >>

LidarVersionDataLEN == SizeOf(LidarVersionDataFields)

\* LidarVersionData::parse
LidarVersionDataParse(bytes) ==
    Carve(bytes, LidarVersionDataLEN, LAMBDA head, remainder :
        Consumed(head, LidarVersionDataFields,
            Ok([hw_version |-> Field(head, LidarVersionDataFields, 1),
                sw_version |-> Field(head, LidarVersionDataFields, 2),
                name       |-> Field(head, LidarVersionDataFields, 3),
                date       |-> Field(head, LidarVersionDataFields, 4),
                reserve    |-> Field(head, LidarVersionDataFields, 5)], remainder)))

-----------------------------------------------------------------------------
(* info.rs                                                                 *)

\* struct TimeStamp { sec: u32, nsec: u32 }
TimeStampFields == << <<4, 4>>, <<4, 4>> >>

TimeStampLEN == SizeOf(TimeStampFields)

\* TimeStamp::parse (it has no check that the bytes were consumed)
TimeStampParse(bytes) ==
    Carve(bytes, TimeStampLEN, LAMBDA head, remainder :
        IF Sum(Widths(TimeStampFields)) > Len(head) THEN Panic("advance out of bounds")
        ELSE Ok([sec  |-> GetU32Le(Field(head, TimeStampFields, 1)),
                 nsec |-> GetU32Le(Field(head, TimeStampFields, 2))], remainder))

\* struct DataInfo { seq: u32, payload_size: u32, stamp: TimeStamp }
DataInfoFields == << <<4, 4>>, <<4, 4>>, <<TimeStampLEN, 4>> >>

DataInfoLEN == SizeOf(DataInfoFields)

\* DataInfo::parse: two u32, then TimeStamp::parse on what is left of the slice
DataInfoParse(bytes) ==
    Carve(bytes, DataInfoLEN, LAMBDA head, remainder :
        IF Len(head) < 8 THEN Panic("advance out of bounds")
        ELSE Try(TimeStampParse(Drop(head, 8)), LAMBDA stamp :
                 IF Len(stamp.remainder) # 0 THEN Panic("all bytes should've been consumed")
                 ELSE Ok([seq          |-> GetU32Le(Slice(head, 1, 4)),
                          payload_size |-> GetU32Le(Slice(head, 5, 8)),
                          stamp        |-> stamp.val], remainder)))

-----------------------------------------------------------------------------
(* imu.rs                                                                  *)

\* the k-th f32 (1-based) of a slice of consecutive little-endian floats
F32At(bytes, k) == GetF32Le(Slice(bytes, 4 * k - 3, 4 * k))

\* struct LidarImuData { info: DataInfo, quaternion: [f32; 4],
\*                       angular_velocity: [f32; 3], linear_acceleration: [f32; 3] }
LidarImuDataFields == << <<DataInfoLEN, 4>>, <<16, 4>>, <<12, 4>>, <<12, 4>> >>

LidarImuDataLEN == SizeOf(LidarImuDataFields)

\* LidarImuData::parse
LidarImuDataParse(bytes) ==
    Carve(bytes, LidarImuDataLEN, LAMBDA head, remainder :
        Try(DataInfoParse(head), LAMBDA info :
            Consumed(info.remainder, Tail(LidarImuDataFields),
                Ok([info                |-> info.val,
                    quaternion          |-> [k \in 1..4 |-> F32At(info.remainder, k)],
                    angular_velocity    |-> [k \in 1..3 |-> F32At(info.remainder, 4 + k)],
                    linear_acceleration |-> [k \in 1..3 |-> F32At(info.remainder, 7 + k)]],
                   remainder))))

-----------------------------------------------------------------------------
(* point_data.rs                                                           *)

\* struct LidarCalibParam: eight f32
LidarCalibParamFields == [k \in 1..8 |-> <<4, 4>>]

LidarCalibParamLEN == SizeOf(LidarCalibParamFields)

\* LidarCalibParam::parse: the eight floats in their declared order
LidarCalibParamParse(bytes) ==
    Carve(bytes, LidarCalibParamLEN, LAMBDA head, remainder :
        Consumed(head, LidarCalibParamFields, Ok([k \in 1..8 |-> F32At(head, k)], remainder)))

\* struct LidarInsideState: two u32 and seven f32
LidarInsideStateFields == [k \in 1..9 |-> <<4, 4>>]

LidarInsideStateLEN == SizeOf(LidarInsideStateFields)

\* LidarInsideState::parse
LidarInsideStateParse(bytes) ==
    Carve(bytes, LidarInsideStateLEN, LAMBDA head, remainder :
        Consumed(head, LidarInsideStateFields,
            Ok([sys_rotation_period |-> GetU32Le(Slice(head, 1, 4)),
                com_rotation_period |-> GetU32Le(Slice(head, 5, 8)),
                floats              |-> [k \in 1..7 |-> F32At(head, 2 + k)]], remainder)))

\* the fields LidarPointData::parse reads itself, after info, state and param:
\* eight f32, point_num, ranges: [u16; 300], intensities: [u8; 300]
LidarPointLineFields == [k \in 1..9 |-> <<4, 4>>] \o << <<600, 2>>, <<300, 1>> >>

\* struct LidarPointData { info, state, param, 8 x f32, point_num, ranges, intensities }
LidarPointDataFields ==
    << <<DataInfoLEN, 4>>, <<LidarInsideStateLEN, 4>>, <<LidarCalibParamLEN, 4>> >>
    \o LidarPointLineFields

LidarPointDataLEN == SizeOf(LidarPointDataFields)

\* the line info, the point number and the two arrays, read from bytes
ReadPointLine(info, state, param, bytes, remainder) ==
    Consumed(bytes, LidarPointLineFields,
        Ok([info        |-> info,
            state       |-> state,
            param       |-> param,
            line        |-> [k \in 1..8 |-> F32At(bytes, k)],
            point_num   |-> GetU32Le(Slice(bytes, 33, 36)),
            ranges      |-> [k \in 1..300 |-> GetU16Le(Slice(bytes, 35 + 2 * k, 36 + 2 * k))],
            intensities |-> Slice(bytes, 637, 936)], remainder))

\* LidarPointData::parse
LidarPointDataParse(bytes) ==
    Carve(bytes, LidarPointDataLEN, LAMBDA head, remainder :
        Try(DataInfoParse(head), LAMBDA info :
            Try(LidarInsideStateParse(info.remainder), LAMBDA state :
                Try(LidarCalibParamParse(state.remainder), LAMBDA param :
                    ReadPointLine(info.val, state.val, param.val,
                                  param.remainder, remainder)))))

-----------------------------------------------------------------------------
(* frame.rs: Packet::parse                                                 *)

\* a mutation of ToVec: the payload is kept only if it is UTF-8 text
ToVecUtf8(payload_bytes) == StringFromUtf8(payload_bytes)

\* payload_bytes.to_vec(): the payload as it is
ToVec(payload_bytes) == Ok(payload_bytes, <<>>)

\* a mutation of Self: payload bytes left over by the reader of the record
\* are an error
SelfExact(variant, r) ==
    Try(r, LAMBDA v :
        IF Len(v.remainder) # 0 THEN Err("payload longer than its record", <<>>)
        ELSE Ok([variant |-> variant, value |-> v.val], <<>>))

\* Self::Variant(value): the packet of a match arm, once its payload is decoded
Self(variant, r) == Try(r, LAMBDA v : Ok([variant |-> variant, value |-> v.val], <<>>))

\* the payload decoder of a packet type: the arm of `match packet_type`
DecodePayload(packet_type, payload_bytes) ==
    CASE packet_type = "LidarUserCmd" ->
            Self("LidarUserCmd",
                 Try(LidarUserCtrlCmdParse(payload_bytes), LAMBDA cmd :
                     UserCmdTryFrom(cmd.val.cmd_type, cmd.val.cmd_value)))
      [] packet_type = "LidarAckData" ->
            Self("LidarAckData",
                 Try(LidarAckDataParse(payload_bytes), LAMBDA d : AckTryFrom(d.val)))
      [] packet_type = "LidarPointData" ->
            Self("LidarPointData", LidarPointDataParse(payload_bytes))
      [] packet_type = "Lidar2DPointData" ->
            Self("Lidar2DPointData", ToVec(payload_bytes))
      [] packet_type = "LidarImuData" ->
            Self("LidarImuData", LidarImuDataParse(payload_bytes))
      [] packet_type = "LidarVersion" ->
            Self("LidarVersion",
                 Try(LidarVersionDataParse(payload_bytes), LAMBDA d : VersionTryFrom(d.val)))
      [] packet_type = "LidarTimeStamp" ->
            Self("LidarTimeStamp", ToVec(payload_bytes))
      [] packet_type = "LidarWorkModeConfig" ->
            Self("LidarWorkModeConfig",
                 Try(LidarWorkModeConfigParse(payload_bytes), LAMBDA config :
                     WorkModeTryFrom(config.val)))
      [] packet_type = "LidarIpAddressConfig" ->
            Self("LidarIpAddressConfig", ToVec(payload_bytes))
      [] packet_type = "LidarMacAddressConfig" ->
            Self("LidarMacAddressConfig", ToVec(payload_bytes))
      [] packet_type = "LidarCommand" ->
            Self("LidarCommand",
                 Try(LidarCommandParse(payload_bytes), LAMBDA command :
                     CommandTryFrom(command.val.cmd_type, command.val.cmd_value)))
      [] packet_type = "LidarParamData" ->
            Self("LidarParamData", ToVec(payload_bytes))
      [] packet_type = "LidarWorkMode" ->
            Self("LidarWorkMode",
                 Try(LidarWorkModeConfigParse(payload_bytes), LAMBDA config :
                     WorkModeTryFrom(config.val)))

\* Packet::parse after the CRC comparison: packet type, payload decoder, packet
Dispatch(header, payload_bytes, remainder) ==
    Try(PacketTypeTryFrom(header.packet_type), LAMBDA packet_type :
        Try(DecodePayload(packet_type.val, payload_bytes), LAMBDA packet :
            Ok(packet.val, remainder)))

\* a mutation of ParseBody: the CRC is not compared
ParseBodyNoCrc(header, payload_bytes, remainder) ==
    Try(FrameTailParse(remainder), LAMBDA tail :
        Dispatch(header, payload_bytes, tail.remainder))

\* a mutation of ParseBody: the CRC is compared with the first four bytes
\* after the payload before the tail is read
ParseBodyCrcFirst(header, payload_bytes, remainder) ==
    IF Len(remainder) >= 4 /\ Checksum(payload_bytes) # GetU32Le(Take(remainder, 4))
    THEN Err("CRC mismatch", <<>>)
    ELSE Try(FrameTailParse(remainder), LAMBDA tail :
             Dispatch(header, payload_bytes, tail.remainder))

\* a mutation of ParseBody: the remainder is the one before the tail was read
ParseBodyKeepTail(header, payload_bytes, remainder) ==
    Try(FrameTailParse(remainder), LAMBDA tail :
        IF Checksum(payload_bytes) # tail.val.crc32 THEN Err("CRC mismatch", <<>>)
        ELSE Dispatch(header, payload_bytes, remainder))

\* Packet::parse from the payload on: payload CRC, tail, CRC comparison, dispatch
ParseBody(header, payload_bytes, remainder) ==
    Try(FrameTailParse(remainder), LAMBDA tail :
        IF Checksum(payload_bytes) # tail.val.crc32 THEN Err("CRC mismatch", <<>>)
        ELSE Dispatch(header, payload_bytes, tail.remainder))

\* a mutation of SplitPayload: a buffer too short for the payload is split
\* where its last FrameTail::LEN bytes begin
SplitPayloadFromEnd(header, payload_len, remainder) ==
    IF payload_len > Len(remainder) /\ Len(remainder) >= FrameTailLEN
    THEN ParseBody(header, Take(remainder, Len(remainder) - FrameTailLEN),
                   Drop(remainder, Len(remainder) - FrameTailLEN))
    ELSE IF payload_len > Len(remainder) THEN Err("payload truncated", <<>>)
    ELSE ParseBody(header, Take(remainder, payload_len), Drop(remainder, payload_len))

\* remainder.split_off(..payload_len).context("payload truncated")?
SplitPayload(header, payload_len, remainder) ==
    IF payload_len > Len(remainder) THEN Err("payload truncated", <<>>)
    ELSE ParseBody(header, Take(remainder, payload_len), Drop(remainder, payload_len))

\* a mutation of PayloadLen: the subtraction saturates at zero
PayloadLenSaturating(header, overhead, remainder) ==
    SplitPayload(header,
                 IF ToUsize(header.packet_size) < overhead THEN 0
                 ELSE ToUsize(header.packet_size) - overhead,
                 remainder)

\* header.packet_size.to_usize().checked_sub(FrameHeader::LEN + FrameTail::LEN)
PayloadLen(header, overhead, remainder) ==
    IF ToUsize(header.packet_size) < overhead
    THEN Err("packet is too small to hold any payload", <<>>)
    ELSE SplitPayload(header, ToUsize(header.packet_size) - overhead, remainder)

\* Packet::parse
PacketParse(input_bytes) ==
    Try(FrameHeaderParse(input_bytes), LAMBDA header :
        PayloadLen(header.val, FrameHeaderLEN + FrameTailLEN, header.remainder))

-----
(* The buffers the model is run on                                         *)

MaxFrames == 2     \* the longest stream of back-to-back frames
MaxNameLen == 2    \* the longest run of chosen bytes at either end of a device name

\* the little-endian bytes of the u32 with the small value n
LeBytes(n) == U32LeBytes(U32(n))

\* a frame as a device or host puts it on the wire: header, payload, tail
MkFrame(packet_type, payload) ==
    FRAME_HEADER_ARRAY \o LeBytes(packet_type) \o LeBytes(24 + Len(payload)) \o payload
    \o U32LeBytes(Checksum(payload)) \o <<0, 0, 0, 0>> \o <<0, 0>> \o FRAME_TAIL_ARRAY

\* buf with the byte at position pos xor-ed with mask
FlipByte(buf, pos, mask) ==
    [i \in 1..Len(buf) |-> IF i = pos THEN Xor8(buf[i], mask) ELSE buf[i]]

FlipMasks == {1, 128, 255}

\* buf with the packet_size field of its header set to n
SetSize(buf, n) ==
    [i \in 1..Len(buf) |-> IF i \in 9..12 THEN LeBytes(n)[i - 8] ELSE buf[i]]

\* sequences over the set S of length 0..n
SeqsUpTo(S, n) == UNION {[1..k -> S] : k \in 0..n}

\* (type_code, value) records of UserCmd and Command frames, good and bad
CmdPayloads ==
    {LeBytes(t) \o LeBytes(v) : t \in 0..8, v \in {0, 1, 2}}
    \cup {LeBytes(t) \o <<255, 255, 255, 255>> : t \in {1, 2, 5}}

AckPayloads ==
    {LeBytes(pt) \o LeBytes(t) \o LeBytes(v) \o LeBytes(st) :
        pt \in {100, 101, 2000, 2002}, t \in {1, 2, 9}, v \in {0, 2}, st \in {0, 1, 5, 6}}

\* WorkMode bit fields: every combination of bits 0..4, alone or with one
\* reserved bit or with all of them
WorkModePayloads ==
    {<<b, 0, 0, 0>> : b \in 0..31}
    \cup {<<b + 32 * h, 0, 0, 0>> : b \in {0, 1, 17, 31}, h \in 1..7}
    \cup {<<b, x, 0, 0>> : b \in {0, 1, 17, 31}, x \in {1, 2, 4, 8, 16, 32, 64, 128, 255}}
    \cup {<<b, 0, x, 0>> : b \in {0, 1, 17, 31}, x \in {1, 2, 4, 8, 16, 32, 64, 128, 255}}
    \cup {<<b, 0, 0, x>> : b \in {0, 1, 17, 31}, x \in {1, 2, 4, 8, 16, 32, 64, 128, 255}}
    \cup {<<b, 255, 255, 255>> : b \in {224, 255}}

\* bytes a device name is made of: NUL, 'L' and the two bytes of U+00E9
NameBytes == {0, 76, 195, 169}

\* 24-byte name fields: chosen bytes at the front and at the back, NUL between
NameFields ==
    {l \o Rep(0, 24 - Len(l) - Len(r)) \o r :
        l \in SeqsUpTo(NameBytes, MaxNameLen), r \in SeqsUpTo(NameBytes, MaxNameLen)}
    \cup {Rep(b, 24) : b \in {76, 255}}
    \cup {<<76, 49>> \o Rep(0, 22)}

VersionOf(name, date) ==
    <<1, 2, 3, 4>> \o <<5, 6, 7, 8>> \o name \o date \o Rep(0, 40)

VersionPayloads ==
    {VersionOf(n, <<50, 53, 48, 49, 51, 49, 0, 0>>) :
        n \in {<<76, 49>> \o Rep(0, 22), Rep(0, 24), Rep(76, 24),
               <<76, 0, 49>> \o Rep(0, 21), <<255>> \o Rep(0, 23),
               Rep(0, 23) \o <<49>>}}

ImuPayload == [i \in 1..56 |-> (37 * i) % 256]

PointPayload == [i \in 1..1020 |-> (7 * i) % 256]

RawPayloads == {<<>>, <<1, 2, 3>>, Rep(255, 5)}

\* frames whose envelope is valid; the payload may or may not decode
\* frames of the fixed-layout kinds whose payload is longer than the record
LongFrames ==
    {MkFrame(t, LeBytes(2) \o LeBytes(1) \o x) :
        t \in {LIDAR_USER_CMD, LIDAR_COMMAND}, x \in {<<9>>, <<1, 2, 3, 4, 5>>}}
    \cup {MkFrame(LIDAR_ACK_DATA, LeBytes(100) \o LeBytes(1) \o LeBytes(0) \o LeBytes(1) \o x) :
              x \in {<<9>>, <<1, 2, 3, 4, 5>>}}
    \cup {MkFrame(LIDAR_VERSION,
                  VersionOf(<<76, 49>> \o Rep(0, 22), <<50, 53, 48, 49, 51, 49, 0, 0>>) \o x) :
              x \in {<<9>>, <<1, 2, 3, 4, 5>>}}
    \cup {MkFrame(LIDAR_WORK_MODE, <<17, 0, 0, 0>> \o x) : x \in {<<32>>, <<1, 2, 3, 4, 5>>}}
    \cup {MkFrame(LIDAR_IMU_DATA, ImuPayload \o <<1, 2, 3, 4, 5>>),
          MkFrame(LIDAR_POINT_DATA, PointPayload \o <<9>>)}

BaseFrames ==
    {MkFrame(LIDAR_USER_CMD, p) : p \in CmdPayloads}
    \cup {MkFrame(LIDAR_COMMAND, p) : p \in CmdPayloads}
    \cup {MkFrame(LIDAR_ACK_DATA, p) : p \in AckPayloads}
    \cup {MkFrame(t, p) : t \in {LIDAR_WORK_MODE_CONFIG, LIDAR_WORK_MODE},
                          p \in {<<b, 0, 0, 0>> : b \in {0, 1, 17, 31, 33}}
                                \cup {<<>>, <<17, 0>>, <<17, 0, 0, 0, 9, 9>>, <<0, 0, 0, 128>>}}
    \cup {MkFrame(LIDAR_VERSION, p) : p \in VersionPayloads}
    \cup {MkFrame(LIDAR_IMU_DATA, p) : p \in {ImuPayload, Take(ImuPayload, 55), ImuPayload \o <<1>>}}
    \cup {MkFrame(LIDAR_POINT_DATA, p) : p \in {PointPayload, Take(PointPayload, 1019)}}
    \cup {MkFrame(t, p) : t \in {LIDAR_2D_POINT_DATA, LIDAR_TIME_STAMP, LIDAR_IP_ADDRESS_CONFIG,
                                 LIDAR_MAC_ADDRESS_CONFIG, LIDAR_PARAM_DATA},
                          p \in RawPayloads}
    \cup {MkFrame(t, p) : t \in {0, 99, 110, 999, 1999, 2003, 65636}, p \in {<<>>, <<1, 0, 0, 0>>}}
    \cup {MkFrame(t, p) : t \in {LIDAR_USER_CMD, LIDAR_COMMAND, LIDAR_ACK_DATA, LIDAR_VERSION},
                          p \in {<<>>, <<1, 0, 0, 0>>, Rep(0, 15)}}
    \cup LongFrames

\* one decodable frame of every packet type, the ones single bytes are changed in
ProbeFrames ==
    {MkFrame(LIDAR_USER_CMD, LeBytes(2) \o LeBytes(1)),
     MkFrame(LIDAR_ACK_DATA, LeBytes(100) \o LeBytes(1) \o LeBytes(0) \o LeBytes(1)),
     MkFrame(LIDAR_2D_POINT_DATA, <<1, 2, 3>>),
     MkFrame(LIDAR_IMU_DATA, ImuPayload),
     MkFrame(LIDAR_VERSION, VersionOf(<<76, 49>> \o Rep(0, 22), <<50, 53, 48, 49, 51, 49, 0, 0>>)),
     MkFrame(LIDAR_TIME_STAMP, <<>>),
     MkFrame(LIDAR_WORK_MODE_CONFIG, <<17, 0, 0, 0>>),
     MkFrame(LIDAR_IP_ADDRESS_CONFIG, Rep(255, 5)),
     MkFrame(LIDAR_MAC_ADDRESS_CONFIG, <<0>>),
     MkFrame(LIDAR_COMMAND, LeBytes(5) \o LeBytes(2)),
     MkFrame(LIDAR_PARAM_DATA, <<7, 7>>),
     MkFrame(LIDAR_WORK_MODE, <<0, 0, 0, 0>>)}

\* the positions of a frame where a byte is changed: all of a short frame; the
\* envelope and the ends of the payload of a long one
ProbePositions(f) ==
    IF Len(f) <= 48 THEN 1..Len(f)
    ELSE (1..14) \cup {Len(f) \div 2} \cup ((Len(f) - 13)..Len(f))

\* frames short enough to be put back to back
StreamFrames ==
    {MkFrame(LIDAR_TIME_STAMP, <<>>),
     MkFrame(LIDAR_WORK_MODE, <<17, 0, 0, 0>>),
     MkFrame(LIDAR_USER_CMD, LeBytes(2) \o LeBytes(0)),
     MkFrame(LIDAR_2D_POINT_DATA, <<85, 170, 5, 10>>),
     MkFrame(LIDAR_ACK_DATA, LeBytes(2002) \o LeBytes(0) \o LeBytes(0) \o LeBytes(1))}

RECURSIVE Concat(_)
Concat(fs) == IF Len(fs) = 0 THEN <<>> ELSE Head(fs) \o Concat(Tail(fs))

Streams == {Concat(fs) : fs \in UNION {[1..n -> StreamFrames] : n \in 1..MaxFrames}}

\* what may follow a frame in the buffer: nothing, bytes that start no frame, a frame
Suffixes == {<<>>, <<0>>, <<85, 170, 5>>, MkFrame(LIDAR_TIME_STAMP, <<>>)}

\* the frames whose packet_size field is set to the sizes around 24
SizedFrames ==
    {MkFrame(LIDAR_TIME_STAMP, <<>>),
     MkFrame(LIDAR_PARAM_DATA, <<7, 7>>),
     MkFrame(LIDAR_USER_CMD, LeBytes(2) \o LeBytes(1))}

\* bytes that start no frame, put before a frame
Junk == {<<0>>, <<85, 170, 5>>, <<10, 85>>}

\* frames with two faults at once: a changed payload byte or stored crc32
\* with a changed tail magic, with a changed header magic, with a
\* packet_size below 24 or past the buffer
TwoFaultsOf(f, pos) ==
    {<<f, FlipByte(FlipByte(f, pos, 1), Len(f), 1)>>,
     <<f, FlipByte(FlipByte(f, pos, 1), Len(f) - 1, 128)>>,
     <<f, FlipByte(FlipByte(FlipByte(f, pos, 1), Len(f), 1), 2, 1)>>,
     <<f, SetSize(FlipByte(FlipByte(f, pos, 1), Len(f), 1), 23)>>,
     <<f, SetSize(FlipByte(f, 1, 1), 23)>>,
     <<f, SetSize(FlipByte(f, 4, 1), Len(f) + 9)>>,
     <<f, SetSize(FlipByte(FlipByte(f, pos, 1), Len(f), 1), Len(f) + 9)>>}

TwoFaults ==
    UNION {TwoFaultsOf(f, 13) \cup TwoFaultsOf(f, Len(f) - 11) :
               f \in {g \in ProbeFrames : Len(g) > 24}}

\* <<frame as sent, frame as received>>: unchanged, or with one byte changed
\* on the way; every frame also with a changed byte in its start magic
Received ==
    {<<f, f>> : f \in BaseFrames}
    \cup TwoFaults
    \cup UNION {{<<f, FlipByte(f, pos, m)>> : pos \in ProbePositions(f), m \in FlipMasks} :
                   f \in ProbeFrames}
    \cup {<<f, FlipByte(f, pos, 255)>> : f \in BaseFrames, pos \in 1..4}
    \cup {<<f, SetSize(f, n)>> : f \in SizedFrames, n \in 0..25}

\* <<first frame as sent, buffer>>
Inputs ==
    {<<fr[1], fr[2] \o s>> : fr \in Received, s \in Suffixes}
    \cup {<<<<>>, b>> : b \in Streams}
    \cup UNION {{<<f, Take(f, k)>> : k \in 1..(Len(f) - 1)} : f \in ProbeFrames}
    \cup {<<<<>>, j \o f>> : j \in Junk, f \in StreamFrames}

-----------------------------------------------------------------------------
(* examples/parse-pcapng.rs: the decode loop of parse_incoming             *)

NotCalled == Err("no call yet", <<>>)

Init ==
    /\ \E i \in Inputs : sent = i[1] /\ input = i[2]
    /\ data = input
    /\ prev = <<>>
    /\ res = NotCalled
    /\ packets = <<>>
    /\ pc = "loop"
    /\ arg = <<>>
    /\ out = NotCalled
    /\ callers = <<>>

\* one turn of `while !data.is_empty()`: (packet, data) = Packet::parse(data).unwrap()
ParseOne ==
    /\ pc = "loop"
    /\ Len(data) # 0
    /\ \E r \in {PacketParse(data)} :
        /\ prev' = data
        /\ res' = r
        /\ IF r.ok
           THEN /\ packets' = Append(packets, r.val)
                /\ data' = r.remainder
                /\ pc' = "loop"
           ELSE /\ pc' = "panic"
                /\ UNCHANGED <<packets, data>>
    /\ UNCHANGED <<sent, input, arg, out, callers>>

\* the loop ends when the buffer is empty
Finish ==
    /\ pc = "loop"
    /\ Len(data) = 0
    /\ pc' = "done"
    /\ UNCHANGED <<sent, input, data, prev, res, packets, arg, out, callers>>

Next == ParseOne \/ Finish

Spec == Init /\ [][Next]_vars

\* the buffers of the loop when its end is the question: streams, alone and
\* followed by bytes that start no frame, frames with sizes around 24,
\* frames with faults followed by a frame
LoopInputs ==
    {<<<<>>, b \o s>> : b \in Streams, s \in {<<>>, <<0>>, <<85, 170, 5>>}}
    \cup {<<<<>>, j \o f>> : j \in Junk, f \in StreamFrames}
    \cup {<<fr[1], fr[2] \o s>> : fr \in TwoFaults, s \in Suffixes}
    \cup {<<f, SetSize(f, n) \o s>> : f \in SizedFrames, n \in 22..25, s \in Suffixes}

InitLoop ==
    /\ \E i \in LoopInputs : sent = i[1] /\ input = i[2]
    /\ data = input
    /\ prev = <<>>
    /\ res = NotCalled
    /\ packets = <<>>
    /\ pc = "loop"
    /\ arg = <<>>
    /\ out = NotCalled
    /\ callers = <<>>

\* parse_incoming is a sequential loop: a turn that can be taken is taken
SpecLive == InitLoop /\ [][Next]_vars /\ WF_vars(Next)

-----------------------------------------------------------------------------
(* The payload decoders run on their own: one payload is decoded once      *)

\* u32 values as they are on the wire, small ones and ones with high bytes set
U32Samples ==
    {<<0, 0, 0, 0>>, <<1, 0, 0, 0>>, <<2, 0, 0, 0>>, <<0, 1, 0, 0>>, <<1, 0, 0, 1>>,
     <<255, 255, 255, 255>>}

\* type codes of the (type_code, value) records: 0..8 and ones with high bytes set
TypeCodeSamples ==
    {<<t, 0, 0, 0>> : t \in 0..8}
    \cup {<<1, 1, 0, 0>>, <<2, 0, 1, 0>>, <<7, 0, 0, 128>>, <<255, 255, 255, 255>>}

\* 8-byte records of UserCmd and Command payloads
CmdRecords == {t \o v : t \in TypeCodeSamples, v \in U32Samples}

\* 16-byte records of Ack payloads: echoed packet type, type code, value, status
AckRecords ==
    {pt \o t \o v \o st :
        pt \in {LeBytes(100), LeBytes(101), LeBytes(2000), LeBytes(2002), LeBytes(0),
                <<100, 0, 1, 0>>},
        t \in {<<c, 0, 0, 0>> : c \in {0, 1, 2, 5, 8}},
        v \in {<<0, 0, 0, 0>>, <<1, 0, 0, 0>>, <<2, 0, 0, 0>>, <<255, 255, 255, 255>>},
        st \in {<<c, 0, 0, 0>> : c \in 0..6}
               \cup {<<1, 1, 0, 0>>, <<1, 0, 0, 1>>, <<255, 255, 255, 255>>}}

\* the 8-byte date fields of a Version payload: ASCII digits with the last
\* two bytes varied, small integers, letters, bytes of 128 and more
DateFields ==
    {<<50, 53, 48, 49, 51, 49>> \o t : t \in {<<0, 0>>, <<55, 56>>, <<255, 1>>}}
    \cup {<<2, 5, 0, 1, 3, 1, 0, 0>>, <<25, 1, 31, 0, 0, 0, 7, 7>>,
          <<65, 98, 32, 45, 0, 127, 0, 0>>, <<128, 200, 255, 233, 48, 57, 9, 9>>}
    \cup {[i \in 1..8 |-> IF i = k THEN b ELSE 48] : k \in 1..8, b \in {0, 57, 255}}

\* the 40 reserved bytes of a Version payload
ReserveFields == {Rep(0, 40), Rep(255, 40), [i \in 1..40 |-> 47 + i]}

\* the payloads handed to a decoder: <<packet type, payload bytes>>
DecodeArgs ==
    {<<t, p>> : t \in {"LidarUserCmd", "LidarCommand"}, p \in CmdRecords}
    \cup {<<"LidarAckData", p>> : p \in AckRecords}
    \cup {<<t, p>> : t \in {"LidarWorkModeConfig", "LidarWorkMode"}, p \in WorkModePayloads}
    \cup {<<"LidarVersion", VersionOf(n, <<50, 53, 48, 49, 51, 49, 0, 0>>)>> : n \in NameFields}
    \cup {<<"LidarVersion", <<1, 2, 3, 4>> \o <<5, 6, 7, 8>> \o (<<76, 49>> \o Rep(0, 22)) \o d \o r>> :
              d \in DateFields, r \in ReserveFields}

InitDecode ==
    /\ arg \in DecodeArgs
    /\ out = NotCalled
    /\ pc = "decode"
    /\ sent = <<>>
    /\ input = <<>>
    /\ data = <<>>
    /\ prev = <<>>
    /\ res = NotCalled
    /\ packets = <<>>
    /\ callers = <<>>

\* the arm of Packet::parse for the packet type, applied to the payload
Decode ==
    /\ pc = "decode"
    /\ out' = DecodePayload(arg[1], arg[2])
    /\ pc' = "decoded"
    /\ UNCHANGED <<sent, input, data, prev, res, packets, arg, callers>>

NextDecode == Decode

SpecDecode == InitDecode /\ [][NextDecode]_vars

-----------------------------------------------------------------------------
(* Several callers (threads), each running the decode loop of              *)
(* parse_incoming on a buffer of its own, their calls interleaved          *)

NumCallers == 2    \* the number of callers

\* the buffers of the callers: streams, a stream followed by junk, a frame
\* with a changed CRC followed by a frame, junk followed by a frame
CallerBuffers ==
    {MkFrame(LIDAR_WORK_MODE, <<17, 0, 0, 0>>),
     MkFrame(LIDAR_USER_CMD, LeBytes(2) \o LeBytes(0)) \o MkFrame(LIDAR_TIME_STAMP, <<>>),
     MkFrame(LIDAR_TIME_STAMP, <<>>) \o MkFrame(LIDAR_PARAM_DATA, <<7, 7>>) \o <<0>>,
     FlipByte(MkFrame(LIDAR_PARAM_DATA, <<7, 7>>), 15, 1) \o MkFrame(LIDAR_TIME_STAMP, <<>>),
     <<0>> \o MkFrame(LIDAR_TIME_STAMP, <<>>),
     MkFrame(LIDAR_COMMAND, LeBytes(9) \o LeBytes(0))}

\* a caller about to enter the loop of parse_incoming on its buffer
CallerWith(buf) ==
    [input |-> buf, data |-> buf, calls |-> 0, prev |-> <<>>, res |-> NotCalled,
     packets |-> <<>>, pc |-> "loop"]

\* a caller after Packet::parse returned r for its data
CallerAfter(c, r) ==
    IF r.ok
    THEN [c EXCEPT !.calls = c.calls + 1, !.prev = c.data, !.res = r,
                   !.packets = Append(c.packets, r.val), !.data = r.remainder]
    ELSE [c EXCEPT !.calls = c.calls + 1, !.prev = c.data, !.res = r, !.pc = "panic"]

\* a mutation of CallResult: after a failed call, of this caller or of
\* another, every call returns the error of that call
CallResultSticky(c) ==
    IF ~res.ok /\ res # NotCalled THEN res ELSE PacketParse(callers[c].data)

\* Packet::parse(data) called by caller c
CallResult(c) == PacketParse(callers[c].data)

InitCallers ==
    /\ callers \in [1..NumCallers -> {CallerWith(buf) : buf \in CallerBuffers}]
    /\ prev = <<>>
    /\ res = NotCalled
    /\ sent = <<>>
    /\ input = <<>>
    /\ data = <<>>
    /\ packets = <<>>
    /\ pc = "callers"
    /\ arg = <<>>
    /\ out = NotCalled

\* one turn of the loop of caller c; prev and res are those of the last call of all
CallerParse(c) ==
    /\ callers[c].pc = "loop"
    /\ Len(callers[c].data) # 0
    /\ \E r \in {CallResult(c)} :
        /\ callers' = [callers EXCEPT ![c] = CallerAfter(callers[c], r)]
        /\ res' = r
    /\ prev' = callers[c].data
    /\ UNCHANGED <<sent, input, data, packets, pc, arg, out>>

\* the loop of caller c ends when its buffer is empty
CallerFinish(c) ==
    /\ callers[c].pc = "loop"
    /\ Len(callers[c].data) = 0
    /\ callers' = [callers EXCEPT ![c].pc = "done"]
    /\ UNCHANGED <<sent, input, data, prev, res, packets, pc, arg, out>>

NextCallers == \E c \in 1..NumCallers : CallerParse(c) \/ CallerFinish(c)

SpecCallers == InitCallers /\ [][NextCallers]_vars

-----------------------------------------------------------------------------
(* The wire format of a frame, read off the bytes of a buffer:             *)
(* magic[4] packet_type:u32 packet_size:u32 payload crc32:u32 msg_type:u32 *)
(* reserve[2] tail[2], integers little-endian                              *)

\* the u32 at bytes at..at+3 of a buffer, as a number (MaxInt from 2^31 on)
WireU32(buf, at) ==
    IF buf[at + 3] >= 128 THEN MaxInt
    ELSE buf[at] + 256 * buf[at + 1] + 65536 * buf[at + 2] + 16777216 * buf[at + 3]

TypeOfFrame(buf) == WireU32(buf, 5)

SizeOfFrame(buf) == WireU32(buf, 9)

\* the buffer holds a header with the start magic 55 AA 05 0A
StartsFrame(buf) ==
    /\ Len(buf) >= 12
    /\ buf[1] = 85 /\ buf[2] = 170 /\ buf[3] = 5 /\ buf[4] = 10

\* valid header and all packet_size bytes of the frame present
WholeFrame(buf) ==
    /\ StartsFrame(buf)
    /\ SizeOfFrame(buf) >= 24
    /\ Len(buf) >= SizeOfFrame(buf)

PayloadOfFrame(buf) == Slice(buf, 13, SizeOfFrame(buf) - 12)

\* the CRC-32 of the payload is the crc32 stored in the tail
CrcMatches(buf) ==
    U32LeBytes(Checksum(PayloadOfFrame(buf)))
        = Slice(buf, SizeOfFrame(buf) - 11, SizeOfFrame(buf) - 8)

\* the frame ends with the tail magic 00 FF
EndsFrame(buf) == buf[SizeOfFrame(buf) - 1] = 0 /\ buf[SizeOfFrame(buf)] = 255

\* whole frame, payload CRC and tail magic right
Enveloped(buf) == WholeFrame(buf) /\ EndsFrame(buf) /\ CrcMatches(buf)

KnownCodes == (100..109) \cup {2000, 2001, 2002}

\* the Packet variant of a packet type code
VariantOfCode(code) ==
    CASE code = 100 -> "LidarUserCmd"
      [] code = 101 -> "LidarAckData"
      [] code = 102 -> "LidarPointData"
      [] code = 103 -> "Lidar2DPointData"
      [] code = 104 -> "LidarImuData"
      [] code = 105 -> "LidarVersion"
      [] code = 106 -> "LidarTimeStamp"
      [] code = 107 -> "LidarWorkModeConfig"
      [] code = 108 -> "LidarIpAddressConfig"
      [] code = 109 -> "LidarMacAddressConfig"
      [] code = 2000 -> "LidarCommand"
      [] code = 2001 -> "LidarParamData"
      [] code = 2002 -> "LidarWorkMode"

\* a well-formed frame: enveloped, of a known type, its payload decodable
WellFormed(buf) ==
    /\ Enveloped(buf)
    /\ TypeOfFrame(buf) \in KnownCodes
    /\ DecodePayload(VariantOfCode(TypeOfFrame(buf)), PayloadOfFrame(buf)).ok

\* Packet::parse has been called: prev is its argument and res its result
Called == pc = "panic" \/ Len(packets) > 0

\* the last call failed with this error
FailedWith(msg) == ~res.ok /\ res.err.msg = msg

RECURSIVE IsStream(_)
\* the buffer is a concatenation of well-formed frames
IsStream(buf) ==
    \/ Len(buf) = 0
    \/ /\ WellFormed(buf)
       /\ IsStream(Drop(buf, SizeOfFrame(buf)))

RECURSIVE FrameCount(_)
\* the number of frames of a stream
FrameCount(buf) == IF Len(buf) = 0 THEN 0 ELSE 1 + FrameCount(Drop(buf, SizeOfFrame(buf)))

RECURSIVE FrameAt(_, _)
\* the i-th frame of a stream
FrameAt(buf, i) ==
    IF i = 1 THEN Take(buf, SizeOfFrame(buf))
    ELSE FrameAt(Drop(buf, SizeOfFrame(buf)), i - 1)

\* the positions at which the received frame differs from the frame sent
Changed == {i \in 1..Len(sent) : input[i] # sent[i]}

\* the call was the first, on a frame that was sent well-formed and
\* received with exactly one byte changed, at a position in P
OneChange(P) ==
    /\ Called
    /\ prev = input
    /\ Len(sent) > 0
    /\ Len(input) >= Len(sent)
    /\ Cardinality(Changed) = 1
    /\ Changed \subseteq P
    /\ WellFormed(sent)

-----------------------------------------------------------------------------
(* Claims                                                                  *)

\* C1: for a buffer that begins with a well-formed frame, Packet::parse
\* returns the Packet variant that corresponds to header.packet_type
C1_VariantMatchesType ==
    (Called /\ WellFormed(prev)) =>
        /\ res.ok
        /\ res.val.variant = VariantOfCode(TypeOfFrame(prev))

\* a well-formed IpAddressConfig frame (code 108) was parsed to its variant
C1_Witness ==
    /\ Called
    /\ WellFormed(prev)
    /\ TypeOfFrame(prev) = 108
    /\ res.ok
    /\ res.val.variant = "LidarIpAddressConfig"

\* C2: whenever Packet::parse succeeds, the remainder is the suffix of the
\* input after its first packet_size bytes, unchanged and in order, and
\* len(input) = header.packet_size + len(remainder)
C2_RemainderIsSuffix ==
    (Called /\ res.ok) =>
        /\ Len(prev) = SizeOfFrame(prev) + Len(res.remainder)
        /\ \A i \in 1..Len(res.remainder) : res.remainder[i] = prev[SizeOfFrame(prev) + i]

\* a parse succeeded on a frame followed by the three bytes 55 AA 05
C2_Witness ==
    /\ Called
    /\ res.ok
    /\ res.val.variant = "LidarParamData"
    /\ res.remainder = <<85, 170, 5>>

\* C3: for a buffer that is the concatenation of n >= 1 well-formed frames,
\* the decode loop yields exactly n packets, in the order of the frames,
\* and ends with an empty remainder
C3_StreamYieldsAllPackets ==
    (IsStream(input) /\ Len(input) > 0) =>
        /\ pc # "panic"
        /\ Len(packets) <= FrameCount(input)
        /\ \A i \in 1..Len(packets) :
               /\ packets[i].variant = VariantOfCode(TypeOfFrame(FrameAt(input, i)))
               /\ packets[i] = PacketParse(FrameAt(input, i)).val
        /\ pc = "done" => Len(packets) = FrameCount(input)
        /\ Len(packets) = FrameCount(input) => Len(data) = 0

\* the loop is done with a stream of two frames of different types
C3_Witness ==
    /\ pc = "done"
    /\ IsStream(input)
    /\ FrameCount(input) = 2
    /\ Len(packets) = 2
    /\ packets[1].variant = "LidarWorkMode"
    /\ packets[2].variant = "LidarUserCmd"

\* C4: for a buffer of at least 12 bytes whose first 4 bytes differ from
\* 55 AA 05 0A, parse fails with the header's magic mismatch, whatever the
\* rest of the buffer contains
C4_HeaderMagicMismatch ==
    (Called /\ Len(prev) >= 12 /\ ~StartsFrame(prev)) => FailedWith("wrong magic bytes")

\* a frame right in all but the third byte of its start magic was rejected
C4_Witness ==
    /\ Called
    /\ Len(prev) >= 12
    /\ prev[1] = 85 /\ prev[2] = 170 /\ prev[3] # 5 /\ prev[4] = 10
    /\ WellFormed(sent)
    /\ FailedWith("wrong magic bytes")

\* C5: for a buffer that holds a complete frame with a valid header and a
\* correct payload CRC whose last 2 tail bytes differ from 00 FF, parse
\* fails with the tail's magic mismatch and returns no packet
C5_TailMagicMismatch ==
    (Called /\ WholeFrame(prev) /\ CrcMatches(prev) /\ ~EndsFrame(prev)) =>
        /\ FailedWith("wrong tail")
        /\ pc = "panic"

\* a frame right in all but the last byte of its tail magic was rejected
C5_Witness ==
    /\ Called
    /\ WholeFrame(prev)
    /\ CrcMatches(prev)
    /\ prev[SizeOfFrame(prev) - 1] = 0
    /\ prev[SizeOfFrame(prev)] # 255
    /\ FailedWith("wrong tail")

\* C6: starting from a well-formed frame, changing one payload byte (the
\* stored crc32 kept) or the stored crc32 (the payload kept) makes parse
\* fail with the CRC mismatch; no packet is returned for a frame whose
\* payload CRC-32 differs from the tail crc32
C6_CrcMismatch ==
    /\ OneChange(13..(SizeOfFrame(sent) - 8)) => FailedWith("CRC mismatch")
    /\ (Called /\ WholeFrame(prev) /\ ~CrcMatches(prev)) => ~res.ok

\* a frame with one payload byte changed was rejected for its CRC
C6_Witness ==
    /\ OneChange(13..(SizeOfFrame(sent) - 12))
    /\ TypeOfFrame(sent) = 100
    /\ FailedWith("CRC mismatch")

\* C7: for an otherwise well-formed frame, a packet_type outside
\* {100..109, 2000, 2001, 2002} makes parse fail with the unknown packet
\* type error carrying that code
C7_UnknownPacketType ==
    (Called /\ Enveloped(prev) /\ TypeOfFrame(prev) \notin KnownCodes) =>
        /\ FailedWith("unknown packet type: {unknown}")
        /\ res.err.args = << <<prev[5] + 256 * prev[6], prev[7] + 256 * prev[8]>> >>

\* an enveloped frame of packet type 999 was rejected with code 999
C7_Witness ==
    /\ Called
    /\ Enveloped(prev)
    /\ TypeOfFrame(prev) = 999
    /\ FailedWith("unknown packet type: {unknown}")
    /\ res.err.args = << <<999, 0>> >>

\* a WorkMode bit field has been decoded, for packet type 107 or 2002
WorkModeDecoded == pc = "decoded" /\ arg[1] \in {"LidarWorkModeConfig", "LidarWorkMode"}

\* one of bits 5..31 of the little-endian u32 is set
ReservedBitSet(bytes) == bytes[1] >= 32 \/ bytes[2] # 0 \/ bytes[3] # 0 \/ bytes[4] # 0

\* bit k of a byte
Bit(b, k) == (b \div (2 ^ k)) % 2 = 1

\* C8: decoding a WorkMode bit field (packet types 107 and 2002) fails
\* whenever one of bits 5..31 is set, whatever bits 0..4 are
C8_ReservedBitsRejected ==
    (WorkModeDecoded /\ ReservedBitSet(arg[2])) =>
        (~out.ok /\ out.err.msg = "unknown mode flags: {value}")

\* the bit field with bits 0 and 5 set was rejected
C8_Witness ==
    /\ WorkModeDecoded
    /\ arg[2] = <<33, 0, 0, 0>>
    /\ ~out.ok

\* C9: for a u32 whose bits 5..31 are zero, WorkMode decoding succeeds and
\* wide_angle = bit 0, measure_2d = bit 1, disable_imu = bit 2,
\* serial_mode = bit 3, wait_start = bit 4
C9_FlagsFromBits ==
    (WorkModeDecoded /\ ~ReservedBitSet(arg[2])) =>
        /\ out.ok
        /\ out.val.variant = arg[1]
        /\ out.val.value = [wide_angle  |-> Bit(arg[2][1], 0),
                            measure_2d  |-> Bit(arg[2][1], 1),
                            disable_imu |-> Bit(arg[2][1], 2),
                            serial_mode |-> Bit(arg[2][1], 3),
                            wait_start  |-> Bit(arg[2][1], 4)]

\* 0b10001 was decoded to wide_angle and wait_start, the other flags false
C9_Witness ==
    /\ WorkModeDecoded
    /\ arg[2] = <<17, 0, 0, 0>>
    /\ out.ok
    /\ out.val.value.wide_angle /\ out.val.value.wait_start
    /\ ~out.val.value.measure_2d /\ ~out.val.value.disable_imu /\ ~out.val.value.serial_mode

\* a Version payload has been decoded
VersionDecoded == pc = "decoded" /\ arg[1] = "LidarVersion"

\* the 24-byte name field of the Version payload
NameField == Slice(arg[2], 9, 32)

\* the position of the last byte of the name field that is not NUL, or 0
LastNonNul ==
    CHOOSE k \in 0..24 :
        /\ k > 0 => NameField[k] # 0
        /\ \A i \in (k + 1)..24 : NameField[i] = 0

\* C10: the decoded Version name is the 24-byte name field without its
\* maximal run of trailing NUL bytes; the bytes before it, NULs among them,
\* are kept (an ASCII name always decodes)
C10_NameTrimmed ==
    VersionDecoded =>
        /\ out.ok => /\ Len(out.val.value.name) = LastNonNul
                     /\ \A i \in 1..LastNonNul : out.val.value.name[i] = NameField[i]
        /\ (\A i \in 1..LastNonNul : NameField[i] < 128) => out.ok

\* a name field of NUL, 'L' and 22 NULs was decoded to the name NUL 'L'
C10_Witness ==
    /\ VersionDecoded
    /\ NameField[1] = 0 /\ NameField[2] = 76 /\ LastNonNul = 2
    /\ out.ok
    /\ out.val.value.name = <<0, 76>>

\* C11: for a header with valid magic and packet_size in 0..23, parse fails
\* because the packet is too small to hold any payload (no wrap-around of
\* packet_size - 24); packet_size = 24 is accepted as an empty payload
C11_LengthUnderflow ==
    /\ (Called /\ StartsFrame(prev) /\ SizeOfFrame(prev) < 24) =>
           FailedWith("packet is too small to hold any payload")
    /\ (Called /\ StartsFrame(prev) /\ SizeOfFrame(prev) >= 24) =>
           ~FailedWith("packet is too small to hold any payload")
    /\ (Called /\ Enveloped(prev) /\ SizeOfFrame(prev) = 24 /\ TypeOfFrame(prev) = 106) =>
           (res.ok /\ Len(res.val.value) = 0)

\* a frame whose header announces 23 bytes was rejected as too small
C11_Witness ==
    /\ Called
    /\ StartsFrame(prev)
    /\ SizeOfFrame(prev) = 23
    /\ FailedWith("packet is too small to hold any payload")

\* the first call was made on a proper prefix of a frame sent well-formed
ProperPrefix ==
    /\ Called
    /\ prev = input
    /\ Len(input) < Len(sent)
    /\ \A i \in 1..Len(input) : input[i] = sent[i]
    /\ WellFormed(sent)

\* the last call failed for want of bytes
InsufficientData ==
    \/ FailedWith("expected a minimum of {} bytes but got {}")
    \/ FailedWith("payload truncated")

\* C12: for a buffer that is a proper prefix of a well-formed frame (cut in
\* header, payload or tail), parse fails for want of bytes; it returns no
\* packet and reports no magic or CRC error
C12_PrefixInsufficient ==
    /\ ProperPrefix => InsufficientData
    /\ (Called /\ Len(prev) < 12) => InsufficientData
    /\ (Called /\ StartsFrame(prev) /\ SizeOfFrame(prev) >= 24
               /\ Len(prev) < SizeOfFrame(prev)) => InsufficientData

\* a frame with its payload there and its tail cut by one byte was rejected
C12_Witness ==
    /\ ProperPrefix
    /\ Len(input) = Len(sent) - 1
    /\ Len(sent) > 24
    /\ InsufficientData

\* the length of the fixed record a packet type's payload starts with
RecordLen(code) ==
    CASE code \in {100, 2000} -> 8
      [] code = 101 -> 16
      [] code = 102 -> 1020
      [] code = 104 -> 56
      [] code = 105 -> 80
      [] code \in {107, 2002} -> 4
      [] OTHER -> 0

\* the last call failed with an error that reports these two byte counts
ReportsCounts(needed, available) == ~res.ok /\ res.err.args = <<needed, available>>

\* C13, short header, short tail and short record: the failure reports the
\* needed and the available byte count
C13_CountsElsewhere ==
    /\ (Called /\ Len(prev) < 12) => ReportsCounts(12, Len(prev))
    /\ (Called /\ StartsFrame(prev) /\ SizeOfFrame(prev) >= 24
               /\ Len(prev) >= SizeOfFrame(prev) - 12 /\ Len(prev) < SizeOfFrame(prev)) =>
           ReportsCounts(12, Len(prev) - (SizeOfFrame(prev) - 12))
    /\ (Called /\ Enveloped(prev) /\ TypeOfFrame(prev) \in KnownCodes
               /\ SizeOfFrame(prev) - 24 < RecordLen(TypeOfFrame(prev))) =>
           ReportsCounts(RecordLen(TypeOfFrame(prev)), SizeOfFrame(prev) - 24)

\* C13: every failure of parse caused by too few bytes (short header,
\* payload shorter than payload_len, short tail, payload shorter than the
\* fixed record of its kind) reports the needed and the available byte count
C13_InsufficientReportsCounts ==
    /\ C13_CountsElsewhere
    /\ (Called /\ StartsFrame(prev) /\ SizeOfFrame(prev) >= 24
               /\ Len(prev) < SizeOfFrame(prev) - 12) =>
           ReportsCounts(SizeOfFrame(prev) - 24, Len(prev) - 12)

\* the crc32 field of the tail of the frame, as a u32
StoredCrc(buf) ==
    <<buf[SizeOfFrame(buf) - 11] + 256 * buf[SizeOfFrame(buf) - 10],
      buf[SizeOfFrame(buf) - 9] + 256 * buf[SizeOfFrame(buf) - 8]>>

\* the call was made on a whole frame, its tail magic right, whose payload
\* CRC-32 differs from the stored one
CrcDiffers == Called /\ WholeFrame(prev) /\ EndsFrame(prev) /\ ~CrcMatches(prev)

\* C14, the error alone: when the CRC-32 of the payload differs from the
\* tail's crc32 field, parse fails with the CRC mismatch
C14_CrcMismatchRaised == CrcDiffers => FailedWith("CRC mismatch")

\* C14: when the CRC-32 of the payload differs from the tail's crc32 field,
\* parse fails with a CRC mismatch that carries the stored and the computed CRC
C14_CrcMismatchCarriesValues ==
    CrcDiffers =>
        /\ FailedWith("CRC mismatch")
        /\ res.err.args = <<StoredCrc(prev), Checksum(PayloadOfFrame(prev))>>

-----------------------------------------------------------------------------
(* The sub-commands, read off the bytes of a record                        *)

\* the u32 at bytes at..at+3 of a record, as the pair of its halves
HalvesAt(bytes, at) == <<bytes[at] + 256 * bytes[at + 1], bytes[at + 2] + 256 * bytes[at + 3]>>

UserCmdName(code) ==
    CASE code = 1 -> "ResetType"
      [] code = 2 -> "StandbyType"
      [] code = 3 -> "VersionGet"
      [] code = 4 -> "LatencyType"
      [] code = 5 -> "ConfigReset"
      [] code = 6 -> "ConfigGet"
      [] code = 7 -> "ConfigAutoStandby"

CommandName(code) ==
    CASE code = 1 -> "ResetType"
      [] code = 2 -> "ParamSave"
      [] code = 3 -> "ParamGet"
      [] code = 4 -> "VersionGet"
      [] code = 5 -> "StandbyType"
      [] code = 6 -> "LatencyType"
      [] code = 7 -> "ConfigReset"

AckStatusName(code) ==
    CASE code = 1 -> "Success"
      [] code = 2 -> "CrcError"
      [] code = 3 -> "HeaderError"
      [] code = 4 -> "BlockError"
      [] code = 5 -> "WaitError"

\* the (type_code, value) pair at bytes at..at+7 is one the UserCmd table takes
UserCmdTakes(bytes, at) ==
    /\ WireU32(bytes, at) \in 1..7
    /\ WireU32(bytes, at) = 2 => WireU32(bytes, at + 4) \in {0, 1}

\* the UserCmd of a pair the table takes
UserCmdAt(bytes, at) ==
    [variant |-> UserCmdName(WireU32(bytes, at)),
     value   |-> IF WireU32(bytes, at) # 2 THEN HalvesAt(bytes, at + 4)
                 ELSE IF WireU32(bytes, at + 4) = 0 THEN "Start" ELSE "Standby"]

\* the (type_code, value) pair at bytes at..at+7 is one the Command table takes
CommandTakes(bytes, at) == WireU32(bytes, at) \in 1..7

\* the Command of a pair the table takes
CommandAt(bytes, at) ==
    [variant |-> CommandName(WireU32(bytes, at)), value |-> HalvesAt(bytes, at + 4)]

\* the payload of a packet of this type has been decoded
Decoded(packet_type) == pc = "decoded" /\ arg[1] = packet_type

\* the decoder failed with this error
DecodeFailedWith(msg) == ~out.ok /\ out.err.msg = msg

\* C15: decoding an acknowledgement succeeds only if its status is one of
\* 1..5 (Success, CrcError, HeaderError, BlockError, WaitError); every
\* other status is a decode error, for every echoed packet type
C15_AckStatus ==
    Decoded("LidarAckData") =>
        /\ WireU32(arg[2], 13) \notin 1..5 =>
               DecodeFailedWith("unknown ack status: {unknown}")
        /\ out.ok =>
               /\ WireU32(arg[2], 13) \in 1..5
               /\ out.val.value.status = AckStatusName(WireU32(arg[2], 13))

\* an acknowledgement of a UserCmd with status 0 was rejected for its status
C15_Witness ==
    /\ Decoded("LidarAckData")
    /\ WireU32(arg[2], 1) = 100
    /\ UserCmdTakes(arg[2], 5)
    /\ WireU32(arg[2], 13) = 0
    /\ DecodeFailedWith("unknown ack status: {unknown}")

\* C16: an acknowledgement is decoded by its echoed packet type: 100 gives
\* Ack::UserCmd with the pair decoded by the UserCmd table, 2000 gives
\* Ack::Command with the pair decoded by the Command table, 2002 gives
\* Ack::WorkMode with cmd_type and cmd_value unchanged; any other echoed
\* type, or a pair the selected table rejects, is a decode error
C16_AckByEchoedType ==
    (Decoded("LidarAckData") /\ WireU32(arg[2], 13) \in 1..5) =>
        CASE WireU32(arg[2], 1) = 100 ->
                IF UserCmdTakes(arg[2], 5)
                THEN /\ out.ok
                     /\ out.val.value = [variant |-> "UserCmd",
                                         cmd     |-> UserCmdAt(arg[2], 5),
                                         status  |-> AckStatusName(WireU32(arg[2], 13))]
                ELSE ~out.ok
          [] WireU32(arg[2], 1) = 2000 ->
                IF CommandTakes(arg[2], 5)
                THEN /\ out.ok
                     /\ out.val.value = [variant |-> "Command",
                                         cmd     |-> CommandAt(arg[2], 5),
                                         status  |-> AckStatusName(WireU32(arg[2], 13))]
                ELSE ~out.ok
          [] WireU32(arg[2], 1) = 2002 ->
                /\ out.ok
                /\ out.val.value = [variant   |-> "WorkMode",
                                    cmd_type  |-> HalvesAt(arg[2], 5),
                                    cmd_value |-> HalvesAt(arg[2], 9),
                                    status    |-> AckStatusName(WireU32(arg[2], 13))]
          [] OTHER -> DecodeFailedWith("ack for unknown packet type: {unknown}")

\* an acknowledgement of Command 5 with value 2 was decoded to StandbyType(2)
C16_Witness ==
    /\ Decoded("LidarAckData")
    /\ WireU32(arg[2], 1) = 2000
    /\ WireU32(arg[2], 5) = 5
    /\ WireU32(arg[2], 9) = 2
    /\ out.ok
    /\ out.val.value.variant = "Command"
    /\ out.val.value.cmd = [variant |-> "StandbyType", value |-> <<2, 0>>]

\* C17: UserCmd decoding maps type_code 1..7 to ResetType, StandbyType,
\* VersionGet, LatencyType, ConfigReset, ConfigGet, ConfigAutoStandby with
\* the value unchanged, except StandbyType whose value is Start for 0,
\* Standby for 1 and a decode error otherwise; every other type_code is a
\* decode error
C17_UserCmdTable ==
    Decoded("LidarUserCmd") =>
        IF WireU32(arg[2], 1) \notin 1..7
        THEN DecodeFailedWith("unknown command type: {unknown}")
        ELSE IF ~UserCmdTakes(arg[2], 1)
        THEN DecodeFailedWith("unknown standby mode: {unknown}")
        ELSE out.ok /\ out.val.value = UserCmdAt(arg[2], 1)

\* the record (2, 2) was rejected for its standby mode
C17_Witness ==
    /\ Decoded("LidarUserCmd")
    /\ WireU32(arg[2], 1) = 2
    /\ WireU32(arg[2], 5) = 2
    /\ DecodeFailedWith("unknown standby mode: {unknown}")

\* C18: Command decoding maps type_code 1..7 to ResetType, ParamSave,
\* ParamGet, VersionGet, StandbyType, LatencyType, ConfigReset and carries
\* every u32 value unchanged in every variant; every other type_code is a
\* decode error
C18_CommandTable ==
    Decoded("LidarCommand") =>
        IF CommandTakes(arg[2], 1)
        THEN out.ok /\ out.val.value = CommandAt(arg[2], 1)
        ELSE DecodeFailedWith("unknown command type: {unknown}")

\* the record (5, 0xFFFFFFFF) was decoded to StandbyType(0xFFFFFFFF)
C18_Witness ==
    /\ Decoded("LidarCommand")
    /\ WireU32(arg[2], 1) = 5
    /\ arg[2][5] = 255 /\ arg[2][8] = 255
    /\ out.ok
    /\ out.val.value = [variant |-> "StandbyType", value |-> <<65535, 65535>>]

-----------------------------------------------------------------------------

\* the packet types whose payload is not decoded
RawCodes == {103, 106, 108, 109, 2001}

\* C19: for packet types 103, 106, 108, 109 and 2001, a frame that passes
\* the envelope checks always decodes, and the packet carries the payload
\* exactly: the same bytes in the same order, packet_size - 24 of them
C19_RawPassthrough ==
    (Called /\ Enveloped(prev) /\ TypeOfFrame(prev) \in RawCodes) =>
        /\ res.ok
        /\ res.val.variant = VariantOfCode(TypeOfFrame(prev))
        /\ Len(res.val.value) = SizeOfFrame(prev) - 24
        /\ \A i \in 1..(SizeOfFrame(prev) - 24) : res.val.value[i] = prev[12 + i]

\* an IpAddressConfig frame with five bytes FF was decoded to those bytes
C19_Witness ==
    /\ Called
    /\ Enveloped(prev)
    /\ TypeOfFrame(prev) = 108
    /\ res.ok
    /\ res.val.value = <<255, 255, 255, 255, 255>>

\* C20: parse inspects a frame at offset 0 of the buffer only: when the
\* buffer does not begin with a valid frame, parse fails, returns neither
\* packet nor remainder, and the buffer is left as it was (no skipping
\* forward to a later start magic)
C20_NoResync ==
    (Called /\ ~WellFormed(prev)) =>
        /\ ~res.ok
        /\ "remainder" \notin DOMAIN res
        /\ pc = "panic"
        /\ data = prev

\* a buffer of junk followed by a well-formed frame was rejected
C20_Witness ==
    /\ Called
    /\ Len(sent) = 0
    /\ prev = input
    /\ \E k \in 1..3 : WellFormed(Drop(input, k))
    /\ ~res.ok
    /\ Len(packets) = 0

-----------------------------------------------------------------------------

RECURSIVE Alone(_, _)
\* a caller after n calls of Packet::parse made on the buffer with no other
\* caller around
Alone(buf, n) ==
    IF n = 0 THEN CallerWith(buf)
    ELSE CallerAfter(Alone(buf, n - 1), PacketParse(Alone(buf, n - 1).data))

EnvelopeErrors ==
    {"wrong magic bytes", "packet is too small to hold any payload", "payload truncated",
     "CRC mismatch", "wrong tail"}

\* the first failing check of a buffer among header magic, length
\* underflow and payload presence, in this order
EarlyFailing(buf) ==
    IF ~StartsFrame(buf) THEN "wrong magic bytes"
    ELSE IF SizeOfFrame(buf) < 24 THEN "packet is too small to hold any payload"
    ELSE IF SizeOfFrame(buf) - 24 > Len(buf) - 12 THEN "payload truncated"
    ELSE "none"

\* the first failing check of a buffer in the order header magic, length
\* underflow, payload presence and then the CRC comparison and the tail
\* magic in either order
FirstFailing(buf, crcFirst) ==
    IF EarlyFailing(buf) # "none" THEN EarlyFailing(buf)
    ELSE IF crcFirst /\ ~CrcMatches(buf) THEN "CRC mismatch"
    ELSE IF ~EndsFrame(buf) THEN "wrong tail"
    ELSE IF ~CrcMatches(buf) THEN "CRC mismatch"
    ELSE "none"

\* parse was called on a buffer that holds a whole header and either fails
\* one of the first three checks or holds all packet_size bytes of the frame
OrderCase ==
    /\ Called
    /\ Len(prev) >= 12
    /\ WholeFrame(prev) \/ EarlyFailing(prev) # "none"

\* parse reported the first failing check of this order, or none of the
\* envelope's errors when no check fails
ReportsFirst(crcFirst) ==
    IF FirstFailing(prev, crcFirst) = "none"
    THEN res.ok \/ res.err.msg \notin EnvelopeErrors
    ELSE FailedWith(FirstFailing(prev, crcFirst))

\* C22 as stated: the checks are applied in the order header magic, length
\* underflow, payload presence, CRC comparison, tail magic and the first
\* failing one is reported; a complete frame whose payload CRC and tail
\* magic are both wrong fails with the CRC mismatch
C22_CrcBeforeTailMagic == OrderCase => ReportsFirst(TRUE)

\* C22 amended: the checks are applied in the order header magic, length
\* underflow, payload presence, tail magic, CRC comparison and the first
\* failing one is reported; a complete frame whose payload CRC and tail
\* magic are both wrong fails with the tail's magic mismatch
C22_TailMagicBeforeCrc == OrderCase => ReportsFirst(FALSE)

\* a complete frame with a wrong payload CRC and a wrong tail magic was
\* rejected for its tail
C22_Witness ==
    /\ Called
    /\ WholeFrame(prev)
    /\ ~EndsFrame(prev)
    /\ ~CrcMatches(prev)
    /\ FailedWith("wrong tail")

\* a successful call consumed exactly the packet_size >= 24 bytes of the
\* frame, and the payload length printed by the loop is not negative
ConsumesFrame ==
    (Called /\ res.ok) =>
        /\ SizeOfFrame(prev) >= 24
        /\ Len(res.remainder) = Len(prev) - SizeOfFrame(prev)
        /\ Len(res.remainder) < Len(prev)
        /\ Len(prev) - Len(res.remainder) - 24 >= 0

\* the buffer bounds the number of successful calls, and the loop is left
\* only with an empty remainder or an error
BoundedCalls ==
    /\ Len(packets) * 24 <= Len(input)
    /\ pc = "done" => Len(data) = 0
    /\ pc = "panic" => ~res.ok

\* C23: the decode loop terminates on every finite buffer: each successful
\* parse returns a remainder shorter than its input by packet_size >= 24
\* bytes, after at most len(buffer)/24 successful calls the loop ends with
\* an empty remainder or an error, and len(input) - len(remainder) - 24 is
\* never negative
C23_LoopTerminates ==
    /\ [](ConsumesFrame /\ BoundedCalls)
    /\ <>(pc \in {"done", "panic"})

\* the loop ended with an empty remainder after two successful calls
C23_Witness ==
    /\ pc = "done"
    /\ Len(packets) = 2
    /\ Len(data) = 0
    /\ Len(input) >= 48

\* the declared length of a record is the sum of the widths of its fields
\* and has this value
Packed(LEN, fields, n) == LEN = n /\ Sum(Widths(fields)) = n

\* a call that ended in a panic!()/unreachable!() instead of a result
Panicked(r) == ~r.ok /\ "panic" \in DOMAIN r

\* C24: for every input buffer parse returns a packet with a remainder or
\* an error; the "bytes should have been completely consumed" branches of
\* the fixed-record readers are not reached and no field read runs past the
\* slice carved for its record, each record being carved to its declared
\* length, the sum of its field widths (header 12, tail 12, ack 16,
\* command 8, work mode 4, data info 16, IMU 56, version 80, point data 1020)
C24_NoPanic ==
    /\ Called => ~Panicked(res)
    /\ (Called /\ res.ok) => DOMAIN res = {"ok", "val", "remainder"}
    /\ (Called /\ ~res.ok) => DOMAIN res = {"ok", "err"}
    /\ Packed(FrameHeaderLEN, FrameHeaderFields, 12)
    /\ Packed(FrameTailLEN, FrameTailFields, 12)
    /\ Packed(LidarAckDataLEN, LidarAckDataFields, 16)
    /\ Packed(LidarCommandLEN, LidarCommandFields, 8)
    /\ Packed(LidarUserCtrlCmdLEN, LidarUserCtrlCmdFields, 8)
    /\ Packed(LidarWorkModeConfigLEN, LidarWorkModeConfigFields, 4)
    /\ Packed(DataInfoLEN, DataInfoFields, 16)
    /\ Packed(LidarImuDataLEN, LidarImuDataFields, 56)
    /\ Packed(LidarVersionDataLEN, LidarVersionDataFields, 80)
    /\ Packed(LidarPointDataLEN, LidarPointDataFields, 1020)

\* a point data record of 1020 bytes was read to its end, and the loop went on
C24_Witness ==
    /\ Called
    /\ res.ok
    /\ res.val.variant = "LidarPointData"
    /\ Len(prev) = 1044
    /\ Len(res.remainder) = 0

\* the packet types whose payload is one fixed-layout record
FixedCodes == {100, 101, 102, 104, 105, 107, 2000, 2002}

\* the buffer with the payload of its first frame cut to the length of the
\* record of its packet type
ExactFrame(buf) ==
    MkFrame(TypeOfFrame(buf), Take(PayloadOfFrame(buf), RecordLen(TypeOfFrame(buf))))
    \o Drop(buf, SizeOfFrame(buf))

\* parse was called on an enveloped frame of a fixed-layout kind
FixedCase == Called /\ Enveloped(prev) /\ TypeOfFrame(prev) \in FixedCodes

\* C25: for the fixed-layout kinds the payload length check passes exactly
\* when the payload has at least the record's length: a shorter payload,
\* the empty one included, fails with insufficient data, and a longer
\* payload is decoded from its first record-length bytes, the extra bytes
\* changing neither the decoded value nor the remainder and raising no error
C25_FixedLengthCheck ==
    FixedCase =>
        IF Len(PayloadOfFrame(prev)) < RecordLen(TypeOfFrame(prev))
        THEN /\ FailedWith("expected a minimum of {} bytes but got {}")
             /\ ReportsCounts(RecordLen(TypeOfFrame(prev)), Len(PayloadOfFrame(prev)))
        ELSE /\ ~InsufficientData
             /\ res = PacketParse(ExactFrame(prev))
             /\ res.ok => res.remainder = Drop(prev, SizeOfFrame(prev))

\* an ack with five payload bytes after its 16-byte record was decoded, and
\* the frame after it is the remainder
C25_Witness ==
    /\ FixedCase
    /\ TypeOfFrame(prev) = 101
    /\ Len(PayloadOfFrame(prev)) = 21
    /\ res.ok
    /\ res.val.variant = "LidarAckData"
    /\ Len(res.remainder) = 24

\* the buffers that differ from buf in the packet_type of its header only
TypeVariants(buf) == {FlipByte(buf, 5, 1), FlipByte(buf, 6, 1), FlipByte(buf, 8, 128)}

\* the buffers that differ from buf in the msg_type_check or in the
\* reserved bytes of the tail of its first frame only
TailVariants(buf) ==
    {FlipByte(buf, SizeOfFrame(buf) - k, 129) : k \in 2..7}

\* the call did not get to the CRC comparison, failed it, or passed it
CrcVerdict(r) ==
    IF r.ok THEN "passed"
    ELSE IF r.err.msg = "CRC mismatch" THEN "failed"
    ELSE IF r.err.msg \in EnvelopeErrors THEN "not reached"
    ELSE "passed"

DateField == Slice(arg[2], 33, 40)

\* C27: the decoded Version compile date is the string "20" c0 c1 "-" c2 c3
\* "-" c4 c5, where c0..c5 are the first six bytes of the 8-byte date field,
\* each taken as one character (a digit byte as its ASCII digit, not as an
\* integer); the last two bytes of the date field and the 40 reserved bytes
\* do not influence the result
C27_DateFormat ==
    (VersionDecoded /\ Len(arg[2]) >= 80) =>
        /\ out.ok
           => /\ out.val.value.date =
                     <<50, 48, DateField[1], DateField[2], 45,
                       DateField[3], DateField[4], 45, DateField[5], DateField[6]>>
              /\ Len(out.val.value.date) = 10
        /\ out = DecodePayload("LidarVersion", Take(arg[2], 38) \o Rep(0, 42))

\* the date field "250131" followed by "78", before reserved bytes of 255,
\* was decoded as 2025-01-31
C27_Witness ==
    /\ VersionDecoded
    /\ out.ok
    /\ DateField = <<50, 53, 48, 49, 51, 49, 55, 56>>
    /\ arg[2][80] = 255
    /\ out.val.value.date = <<50, 48, 50, 53, 45, 48, 49, 45, 51, 49>>
====
